---- MODULE Spec2Model ----
(***************************************************************************)
(* Dragon Gate combat engine: the CombatStateMachine with the pieces it    *)
(* drives (ActionExecutor, EnemyAI, BattleTriggerEngine, ModifierStack).   *)
(* One action per public command; each action runs the whole synchronous   *)
(* call chain of the command (executeAction -> endTurn -> nextTurn ->      *)
(* startTurn -> enemy AI ...) and yields the state in which it returns.    *)
(* Math.random and Date.now are inputs: every operator that reads them     *)
(* returns the SET of states it can produce.                               *)
(***************************************************************************)
EXTENDS Integers, Sequences, FiniteSets, TLC

----------------------------------------------------------------------------
(* Bounds of the exploration *)

MaxTurn == 2        \* commands are accepted while turnNumber <= MaxTurn
MaxDialogs == 2     \* queueDialog is called at most this often in one battle
MaxLog == 2         \* battleLog is kept by its length, saturating here
MaxDepth == 12      \* nested startTurn calls of one command before the stack overflows
MaxDamage == 2      \* DamageCalculator.calculate returns 1..MaxDamage
MaxEvals == 3       \* evaluate calls explored on a stand-alone trigger engine
MaxClock == 1       \* Date.now() takes the values 0..MaxClock
MaxWrites == 2      \* assignments to battleResult are counted up to here
MaxOps == 5         \* calls explored on a stand-alone ModifierStack
MaxCalls == 3       \* calls made on one FormulaParser

(* Program constants *)

VarianceSpan == 10  \* Math.floor(Math.random() * 10)
NoNum == -1         \* an optional number that is undefined

----------------------------------------------------------------------------
(* Generic helpers *)

Range(f) == {f[i] : i \in DOMAIN f}

Bind(S, F(_)) == UNION {F(x) : x \in S}

\* K applied to the value x
With(x, K(_)) == K(x)

Max2(a, b) == IF a >= b THEN a ELSE b

Min2(a, b) == IF a <= b THEN a ELSE b

RECURSIVE SumSeq(_)
SumSeq(q) == IF q = <<>> THEN 0 ELSE Head(q) + SumSeq(Tail(q))

SelectIdx(q, P(_)) == {i \in 1..Len(q) : P(q[i])}

RECURSIVE Gcd(_, _)
Gcd(a, b) == IF b = 0 THEN a ELSE Gcd(b, a % b)

----------------------------------------------------------------------------
(* Game definition: a small game with no derived stats, so that            *)
(* getCompleteStats(base, level) is the base block itself.                 *)

Stats(speed, hp, mp, atk, def) ==
  [Speed |-> speed, MaxHP |-> hp, MaxMP |-> mp, Attack |-> atk, Defense |-> def]

StatNames == {"Speed", "MaxHP", "MaxMP", "Attack", "Defense"}

NoEffect == <<>>

Effect(stat, type, value, duration) ==
  <<[stat |-> stat, type |-> type, value |-> value, duration |-> duration]>>

Skill(id, type, mpCost, hpCost, power, target, buffEffect, debuffEffect) ==
  [id |-> id, type |-> type, mpCost |-> mpCost, hpCost |-> hpCost, power |-> power,
   target |-> target, buffEffect |-> buffEffect, debuffEffect |-> debuffEffect]

GameSkills ==
  << Skill("strike", "physical", 0, NoNum, 100, "single", NoEffect, NoEffect),
     Skill("fire", "magic", 1, NoNum, 150, "single", NoEffect, NoEffect),
     Skill("bite", "physical", 1, NoNum, 120, "single", NoEffect, NoEffect),
     Skill("guard", "defense", 0, NoNum, NoNum, "self", NoEffect, NoEffect),
     Skill("mend", "healing", 1, NoNum, 50, "self", NoEffect, NoEffect),
     Skill("howl", "buff", 0, NoNum, NoNum, "self", NoEffect, NoEffect),
     Skill("hex", "debuff", 1, NoNum, NoNum, "single", NoEffect, NoEffect),
     Skill("quake", "magic", 1, NoNum, 80, "all", NoEffect, NoEffect) >>

Item(id, effect, value, buffStat, buffValue, buffDuration) ==
  [id |-> id, effect |-> effect, value |-> value,
   buffStat |-> buffStat, buffValue |-> buffValue, buffDuration |-> buffDuration]

GameItems ==
  << Item("potion", "healHp", 1, "", NoNum, NoNum),
     Item("bomb", "damage", 2, "", NoNum, NoNum) >>

Drop(itemId, chance, count) == [itemId |-> itemId, chance |-> chance, count |-> count]

\* an EnemyAIConfig; NoNum, "" and <<>> stand for fields that are left out
AIConfig(behavior, healThreshold, defendThreshold, preferTargets, skillPriority) ==
  <<[behavior |-> behavior, healThreshold |-> healThreshold, defendThreshold |-> defendThreshold,
     preferTargets |-> preferTargets, skillPriority |-> skillPriority]>>

NoAI == <<>>

Enemy(id, baseStats, skills, drops, exp, gold, ai) ==
  [id |-> id, baseStats |-> baseStats, skills |-> skills, drops |-> drops,
   exp |-> exp, gold |-> gold, ai |-> ai]

GameEnemies ==
  << Enemy("a", Stats(5, 2, 1, 2, 0), <<"bite">>, <<Drop("potion", 50, NoNum)>>, 5, 2,
           AIConfig("aggressive", NoNum, NoNum, "", <<>>)),
     Enemy("a_1", Stats(12, 1, 0, 1, 0), <<"strike">>, <<>>, 3, NoNum, NoAI) >>

Player == [id |-> "hero", baseStats |-> Stats(15, 3, 2, 2, 0),
           skills |-> <<"strike", "fire", "guard">>, level |-> 1]

\* Array.prototype.find by id: <<>> for undefined, else <<the first match>>
FindById(table, id) ==
  LET found == SelectSeq(table, LAMBDA r : r.id = id)
  IN IF found = <<>> THEN <<>> ELSE <<found[1]>>

getSkillById(skillId) == FindById(GameSkills, skillId)

getItemById(itemId) == FindById(GameItems, itemId)

----------------------------------------------------------------------------
(* The combatant map: a Map<string, Combatant> in insertion order, kept as *)
(* a sequence of Combatant records.                                        *)

Has(cs, id) == \E i \in 1..Len(cs) : cs[i].id = id

IdxOf(cs, id) == CHOOSE i \in 1..Len(cs) : cs[i].id = id

Get(cs, id) == cs[IdxOf(cs, id)]

Put(cs, c) == IF Has(cs, c.id) THEN [cs EXCEPT ![IdxOf(cs, c.id)] = c] ELSE Append(cs, c)

Existing(cs, ids) == SelectSeq(ids, LAMBDA id : Has(cs, id))

----------------------------------------------------------------------------
(* ModifierStack: a Map<string, ActiveModifierState> in insertion order.   *)

ModifierEffect(stat, valueType, value) == [stat |-> stat, valueType |-> valueType, value |-> value]

ModifierDefinition(id, effects, duration, stackable, maxStacks) ==
  [id |-> id, effects |-> effects, duration |-> duration,
   stackable |-> stackable, maxStacks |-> maxStacks]

HasModifier(mods, id) == \E i \in 1..Len(mods) : mods[i].definition.id = id

ModIdx(mods, id) == CHOOSE i \in 1..Len(mods) : mods[i].definition.id = id

\* addModifier stacking without the maxStacks cap
addModifier_NoCap(mods, definition, sourceType) ==
  IF HasModifier(mods, definition.id) /\ definition.stackable
  THEN LET i == ModIdx(mods, definition.id)
       IN [mods EXCEPT ![i].currentStacks = @ + 1,
                       ![i].remainingDuration =
                          IF definition.duration # NoNum THEN definition.duration ELSE @]
  ELSE IF ~HasModifier(mods, definition.id)
  THEN Append(mods, [definition |-> definition, sourceType |-> sourceType,
                     currentStacks |-> 1, remainingDuration |-> definition.duration])
  ELSE mods

\* addModifier refreshing the duration of an active modifier that is not stackable
addModifier_AlwaysRefreshes(mods, definition, sourceType) ==
  IF HasModifier(mods, definition.id)
  THEN LET i == ModIdx(mods, definition.id)
           stacks == IF ~definition.stackable THEN mods[i].currentStacks
                     ELSE IF definition.maxStacks = NoNum THEN mods[i].currentStacks + 1
                     ELSE Min2(mods[i].currentStacks + 1, definition.maxStacks)
       IN [mods EXCEPT ![i].currentStacks = stacks,
                       ![i].remainingDuration =
                          IF definition.duration # NoNum THEN definition.duration ELSE @]
  ELSE Append(mods, [definition |-> definition, sourceType |-> sourceType,
                     currentStacks |-> 1, remainingDuration |-> definition.duration])

addModifier(mods, definition, sourceType) ==
  IF HasModifier(mods, definition.id) /\ definition.stackable
  THEN LET i == ModIdx(mods, definition.id)
           stacks == IF definition.maxStacks = NoNum THEN mods[i].currentStacks + 1
                     ELSE Min2(mods[i].currentStacks + 1, definition.maxStacks)
       IN [mods EXCEPT ![i].currentStacks = stacks,
                       ![i].remainingDuration =
                          IF definition.duration # NoNum THEN definition.duration ELSE @]
  ELSE IF ~HasModifier(mods, definition.id)
  THEN Append(mods, [definition |-> definition, sourceType |-> sourceType,
                     currentStacks |-> 1, remainingDuration |-> definition.duration])
  ELSE mods

removeStack(mods, modifierId) ==
  IF ~HasModifier(mods, modifierId) THEN mods
  ELSE LET i == ModIdx(mods, modifierId)
       IN IF mods[i].currentStacks - 1 <= 0
          THEN SelectSeq(mods, LAMBDA m : m.definition.id # modifierId)
          ELSE [mods EXCEPT ![i].currentStacks = @ - 1]

Expires(m) == m.remainingDuration # NoNum /\ m.remainingDuration - 1 <= 0

\* tickDuration removing a modifier one tick late (remainingDuration < 0)
tickDuration_OneTickLate(mods) ==
  LET ticked == [i \in 1..Len(mods) |->
                   IF mods[i].remainingDuration # NoNum
                   THEN [mods[i] EXCEPT !.remainingDuration = @ - 1] ELSE mods[i]]
      expired == SelectSeq(mods, LAMBDA m : m.remainingDuration # NoNum
                                             /\ m.remainingDuration - 1 < 0)
  IN [mods |-> SelectSeq(ticked, LAMBDA m : m.remainingDuration = NoNum \/ m.remainingDuration >= 0),
      expired |-> [i \in 1..Len(expired) |-> expired[i].definition.id]]

tickDuration(mods) ==
  LET ticked == [i \in 1..Len(mods) |->
                   IF mods[i].remainingDuration # NoNum
                   THEN [mods[i] EXCEPT !.remainingDuration = @ - 1] ELSE mods[i]]
      expired == SelectSeq(mods, Expires)
  IN [mods |-> SelectSeq(ticked, LAMBDA m : m.remainingDuration = NoNum \/ m.remainingDuration > 0),
      expired |-> [i \in 1..Len(expired) |-> expired[i].definition.id]]

clearBySource(mods, sourceType) == SelectSeq(mods, LAMBDA m : m.sourceType # sourceType)

RECURSIVE EffectSum(_, _, _, _)
EffectSum(effects, stat, valueType, multiplier) ==
  IF effects = <<>> THEN 0
  ELSE (IF Head(effects).stat = stat /\ (Head(effects).valueType = "flat") = (valueType = "flat")
        THEN Head(effects).value * multiplier ELSE 0)
       + EffectSum(Tail(effects), stat, valueType, multiplier)

RECURSIVE BonusSum(_, _, _)
BonusSum(mods, stat, valueType) ==
  IF mods = <<>> THEN 0
  ELSE EffectSum(Head(mods).definition.effects, stat, valueType, Head(mods).currentStacks)
       + BonusSum(Tail(mods), stat, valueType)

\* The pairs <<base + flat, percent>>, among 0..64 for base + flat and the
\* multiples of 16 up to 96 for percent, whose product
\* (base + flat) * (1 + percent / 100) in the doubles of the code is just
\* under the integer it stands for: 1 + 16 / 100 is a double slightly under
\* 1.16, and 25 times it is 28.999999999999996.
RoundsBelow == {<<25, 16>>, <<50, 16>>}

\* Math.floor((base + flat) * (1 + percent / 100)), base + flat being x
FloorOfProduct(x, percent) ==
  ((x * (100 + percent)) \div 100) - (IF <<x, percent>> \in RoundsBelow THEN 1 ELSE 0)

applyToStats(mods, baseStats) ==
  [stat \in DOMAIN baseStats |->
     FloorOfProduct(baseStats[stat] + BonusSum(mods, stat, "flat"),
                    BonusSum(mods, stat, "percent"))]

getCompleteStats(primaryStats, level) == primaryStats

----------------------------------------------------------------------------
(* ActionExecutor.  Combatants are shared objects, so the executor works   *)
(* on the combatant map cs, the actor's id and the target ids.  A running  *)
(* result r is [cs, effects, killedTargets].                               *)

ActionEffect(targetId, type, value) == [targetId |-> targetId, type |-> type, value |-> value]

Truthy(n) == n # NoNum /\ n # 0

\* DamageCalculator.calculate(...).damage: Math.max(1, Math.floor(rawDamage))
DamageRolls == 1..MaxDamage

\* DamageCalculator.calculateHealing: floor((basePower + magAtk * 0.5) * variance),
\* variance in [0.9, 1.1), magAtk falling back to 10
HealRolls(basePower) ==
  LET x == 2 * basePower + 10
  IN ((x * 9) \div 20) .. (((x * 11) + 19) \div 20 - 1)

RECURSIVE executeAttackSkill(_, _, _, _)
executeAttackSkill(r, actorId, skill, targets) ==
  IF targets = <<>> THEN {r}
  ELSE LET target == Get(r.cs, Head(targets))
       IN IF ~target.isAlive THEN executeAttackSkill(r, actorId, skill, Tail(targets))
          ELSE Bind(DamageRolls, LAMBDA damage :
                 LET finalDamage == IF target.isDefending THEN damage \div 2 ELSE damage
                     hp == Max2(0, target.currentHp - finalDamage)
                     t2 == [target EXCEPT !.currentHp = hp,
                                          !.isAlive = IF hp <= 0 THEN FALSE ELSE @]
                     r2 == [cs |-> Put(r.cs, t2),
                            effects |-> Append(r.effects, ActionEffect(target.id, "damage", finalDamage)),
                            killedTargets |-> IF hp <= 0 THEN Append(r.killedTargets, target.id)
                                              ELSE r.killedTargets]
                 IN executeAttackSkill(r2, actorId, skill, Tail(targets)))

RECURSIVE executeHealingSkill(_, _, _, _)
executeHealingSkill(r, actorId, skill, targets) ==
  IF targets = <<>> THEN {r}
  ELSE LET target == Get(r.cs, Head(targets))
           basePower == IF skill.power = NoNum THEN 50 ELSE skill.power
       IN IF ~target.isAlive THEN executeHealingSkill(r, actorId, skill, Tail(targets))
          ELSE Bind(HealRolls(basePower), LAMBDA healAmount :
                 LET hp == Min2(target.maxHp, target.currentHp + healAmount)
                     r2 == [r EXCEPT !.cs = Put(r.cs, [target EXCEPT !.currentHp = hp]),
                                     !.effects = Append(@, ActionEffect(target.id, "heal",
                                                                        hp - target.currentHp))]
                 IN executeHealingSkill(r2, actorId, skill, Tail(targets)))

\* the shared loop of executeBuffSkill and executeDebuffSkill
RECURSIVE ApplyModifierSkill(_, _, _, _, _)
ApplyModifierSkill(r, definition, sourceType, effect, targets) ==
  IF targets = <<>> THEN r
  ELSE LET target == Get(r.cs, Head(targets))
       IN IF ~target.isAlive THEN ApplyModifierSkill(r, definition, sourceType, effect, Tail(targets))
          ELSE ApplyModifierSkill(
                 [r EXCEPT !.cs = Put(r.cs, [target EXCEPT !.modifiers =
                                                addModifier(@, definition, sourceType)]),
                           !.effects = Append(@, ActionEffect(target.id, sourceType, effect.value))],
                 definition, sourceType, effect, Tail(targets))

executeBuffSkill(r, actorId, skill, targets) ==
  IF skill.buffEffect = NoEffect THEN r
  ELSE LET e == skill.buffEffect[1]
       IN ApplyModifierSkill(r,
            ModifierDefinition("buff_" \o skill.id,
                               <<ModifierEffect(e.stat, e.type, e.value)>>, e.duration, FALSE, NoNum),
            "buff", e, targets)

executeDebuffSkill(r, actorId, skill, targets) ==
  IF skill.debuffEffect = NoEffect THEN r
  ELSE LET e == skill.debuffEffect[1]
           negative == IF e.value >= 0 THEN 0 - e.value ELSE e.value
       IN ApplyModifierSkill(r,
            ModifierDefinition("debuff_" \o skill.id,
                               <<ModifierEffect(e.stat, e.type, negative)>>, e.duration, FALSE, NoNum),
            "debuff", e, targets)

executeDefenseSkill(r, actorId, skill) ==
  LET actor == Get(r.cs, actorId)
      a1 == [actor EXCEPT !.isDefending = TRUE]
      a2 == IF skill.buffEffect = NoEffect THEN a1
            ELSE LET e == skill.buffEffect[1]
                 IN [a1 EXCEPT !.modifiers = addModifier(@,
                       ModifierDefinition("defense_" \o skill.id,
                                          <<ModifierEffect(e.stat, e.type, e.value)>>, 1, FALSE, NoNum),
                       "buff")]
  IN [r EXCEPT !.cs = Put(r.cs, a2),
               !.effects = Append(@, ActionEffect(actorId, "buff", 50))]

ActionResult(r, success) ==
  [cs |-> r.cs, success |-> success, effects |-> r.effects, killedTargets |-> r.killedTargets]

\* executeSkill from "Deduct costs" on
PaidSkill(cs, actorId, skill, targets) ==
  LET actor == Get(cs, actorId)
      paid == [actor EXCEPT !.currentMp = @ - skill.mpCost,
                            !.currentHp = IF Truthy(skill.hpCost) THEN @ - skill.hpCost ELSE @]
      r0 == [cs |-> Put(cs, paid), effects |-> <<>>, killedTargets |-> <<>>]
      rs == CASE skill.type \in {"physical", "magic"} ->
                   executeAttackSkill(r0, actorId, skill, targets)
              [] skill.type = "healing" -> executeHealingSkill(r0, actorId, skill, targets)
              [] skill.type = "buff" -> {executeBuffSkill(r0, actorId, skill, targets)}
              [] skill.type = "debuff" -> {executeDebuffSkill(r0, actorId, skill, targets)}
              [] skill.type = "defense" -> {executeDefenseSkill(r0, actorId, skill)}
              [] skill.type = "special" ->
                   LET r1 == executeBuffSkill(r0, actorId, skill, targets)
                       r2 == executeDebuffSkill(r1, actorId, skill, targets)
                   IN IF Truthy(skill.power) /\ skill.power > 0
                      THEN executeAttackSkill(r2, actorId, skill, targets) ELSE {r2}
              [] OTHER -> {r0}
  IN {ActionResult(r, TRUE) : r \in rs}

\* the result of a skill that cannot be paid for
Refused(cs) == ActionResult([cs |-> cs, effects |-> <<>>, killedTargets |-> <<>>], FALSE)

\* executeSkill without the check of the HP cost
executeSkill_NoHpCheck(cs, actorId, skill, targets) ==
  IF skill.mpCost > Get(cs, actorId).currentMp THEN {Refused(cs)}
  ELSE PaidSkill(cs, actorId, skill, targets)

executeSkill(cs, actorId, skill, targets) ==
  LET actor == Get(cs, actorId)
  IN IF skill.mpCost > actor.currentMp THEN {Refused(cs)}
     ELSE IF Truthy(skill.hpCost) /\ skill.hpCost >= actor.currentHp THEN {Refused(cs)}
     ELSE PaidSkill(cs, actorId, skill, targets)

\* one iteration of the per-target loop of executeItem
ItemOnTarget(r, item, target) ==
  CASE item.effect = "healHp" /\ target.isAlive ->
         LET hp == Min2(target.maxHp, target.currentHp + item.value)
         IN [r EXCEPT !.cs = Put(r.cs, [target EXCEPT !.currentHp = hp]),
                      !.effects = Append(@, ActionEffect(target.id, "heal", hp - target.currentHp))]
    [] item.effect = "healMp" /\ target.isAlive ->
         LET mp == Min2(target.maxMp, target.currentMp + item.value)
         IN [r EXCEPT !.cs = Put(r.cs, [target EXCEPT !.currentMp = mp]),
                      !.effects = Append(@, ActionEffect(target.id, "healMp", mp - target.currentMp))]
    [] item.effect = "revive" /\ ~target.isAlive ->
         LET hp == (target.maxHp * item.value) \div 100
         IN [r EXCEPT !.cs = Put(r.cs, [target EXCEPT !.isAlive = TRUE, !.currentHp = hp]),
                      !.effects = Append(@, ActionEffect(target.id, "revive", hp))]
    [] item.effect = "buff" /\ item.buffStat # "" /\ Truthy(item.buffValue) /\ target.isAlive ->
         [r EXCEPT !.cs = Put(r.cs, [target EXCEPT !.modifiers = addModifier(@,
                           ModifierDefinition("item_" \o item.id,
                              <<ModifierEffect(item.buffStat, "flat", item.buffValue)>>,
                              IF item.buffDuration = NoNum THEN 3 ELSE item.buffDuration,
                              FALSE, NoNum),
                           "item")]),
                   !.effects = Append(@, ActionEffect(target.id, "buff", item.buffValue))]
    [] item.effect = "damage" /\ target.isAlive ->
         LET hp == Max2(0, target.currentHp - item.value)
         IN [cs |-> Put(r.cs, [target EXCEPT !.currentHp = hp,
                                             !.isAlive = IF hp <= 0 THEN FALSE ELSE @]),
             effects |-> Append(r.effects, ActionEffect(target.id, "damage", item.value)),
             killedTargets |-> IF hp <= 0 THEN Append(r.killedTargets, target.id)
                               ELSE r.killedTargets]
    [] item.effect = "cure" /\ target.isAlive ->
         [r EXCEPT !.cs = Put(r.cs, [target EXCEPT !.modifiers = clearBySource(@, "debuff")]),
                   !.effects = Append(@, ActionEffect(target.id, "buff", 0))]
    [] OTHER -> r

RECURSIVE ItemOnTargets(_, _, _)
ItemOnTargets(r, item, targets) ==
  IF targets = <<>> THEN r
  ELSE ItemOnTargets(ItemOnTarget(r, item, Get(r.cs, Head(targets))), item, Tail(targets))

executeItem(cs, actorId, item, targets) ==
  ActionResult(ItemOnTargets([cs |-> cs, effects |-> <<>>, killedTargets |-> <<>>], item, targets),
               TRUE)

----------------------------------------------------------------------------
(* A stable sort, as Array.prototype.sort: Before(a, b) is "the comparator *)
(* puts a strictly before b".                                              *)

SortStable(q, Before(_, _)) ==
  LET pos(i) == 1 + Cardinality({j \in 1..Len(q) :
                      Before(q[j], q[i]) \/ (j < i /\ ~Before(q[i], q[j]))})
  IN [k \in 1..Len(q) |-> q[CHOOSE i \in 1..Len(q) : pos(i) = k]]

----------------------------------------------------------------------------
(* BattleTriggerEngine.  A trigger is [id, condition, once, maxFires,      *)
(* action]; id "" and maxFires NoNum stand for undefined.  The engine is   *)
(* [triggers, firedCounts, triggerIdCounter, fires]; fires[i] counts how   *)
(* often the i-th trigger was returned by evaluate since setTriggers (the  *)
(* engine itself keeps only firedCounts, keyed by trigger id).             *)

Trigger(id, condition, once, maxFires, action) ==
  [id |-> id, condition |-> condition, once |-> once, maxFires |-> maxFires, action |-> action]

NewTriggerEngine == [triggers |-> <<>>, firedCounts |-> <<>>, triggerIdCounter |-> 0, fires |-> <<>>]

\* ids given by setTriggers: t.id ?? `trigger_${this.triggerIdCounter++}`
AssignedId(triggers, counter, i) ==
  IF triggers[i].id # "" THEN triggers[i].id
  ELSE "trigger_" \o ToString(counter + Cardinality({j \in 1..(i - 1) : triggers[j].id = ""}))

setTriggers(engine, triggers) ==
  [triggers |-> [i \in 1..Len(triggers) |->
                   [triggers[i] EXCEPT !.id = AssignedId(triggers, engine.triggerIdCounter, i)]],
   firedCounts |-> <<>>,
   triggerIdCounter |-> engine.triggerIdCounter
                          + Cardinality({j \in 1..Len(triggers) : triggers[j].id = ""}),
   fires |-> [i \in 1..Len(triggers) |-> 0]]

\* firedCounts is a Map<string, number>, kept as a sequence of <<id, count>>
FiredCount(firedCounts, id) ==
  IF \E i \in 1..Len(firedCounts) : firedCounts[i][1] = id
  THEN firedCounts[CHOOSE i \in 1..Len(firedCounts) : firedCounts[i][1] = id][2]
  ELSE 0

\* canFire without the check of the once flag
canFire_MaxFiresOnly(engine, trigger) ==
  LET firedCount == FiredCount(engine.firedCounts, trigger.id)
  IN ~(trigger.maxFires # NoNum /\ firedCount >= trigger.maxFires)

canFire(engine, trigger) ==
  LET firedCount == FiredCount(engine.firedCounts, trigger.id)
  IN ~(trigger.once /\ firedCount >= 1)
     /\ ~(trigger.maxFires # NoNum /\ firedCount >= trigger.maxFires)

recordFire(engine, trigger) ==
  LET current == FiredCount(engine.firedCounts, trigger.id)
      fc == engine.firedCounts
  IN [engine EXCEPT !.firedCounts =
        IF \E i \in 1..Len(fc) : fc[i][1] = trigger.id
        THEN [i \in 1..Len(fc) |-> IF fc[i][1] = trigger.id THEN <<trigger.id, current + 1>> ELSE fc[i]]
        ELSE Append(fc, <<trigger.id, current + 1>>)]

(* The view of a CombatSnapshot that buildContext hands to the formulas,   *)
(* and the value parser.compute gives to each condition used by a scene:   *)
(* 1 or 0 as a comparison does, or "throws" for a formula that throws.     *)

Enemies(cs) == SelectSeq(cs, LAMBDA c : ~c.isPlayer)

Players(cs) == SelectSeq(cs, LAMBDA c : c.isPlayer)

Alive(cs) == SelectSeq(cs, LAMBDA c : c.isAlive)

Throws == -2

Bool(b) == IF b THEN 1 ELSE 0

Conditions == {"1", "0", "turn >= 2", "turn < 2", "enemy.hp < 2", "enemiesAlive == 0", "1 / 0", "boss.hp < 1", "turn >="}

compute(condition, turnNumber, cs) ==
  CASE condition = "1" -> 1
    [] condition = "0" -> 0
    [] condition = "turn >= 2" -> Bool(turnNumber >= 2)
    [] condition = "turn < 2" -> Bool(turnNumber < 2)
    [] condition = "enemy.hp < 2" ->
         IF Enemies(cs) = <<>> THEN Throws ELSE Bool(Enemies(cs)[1].currentHp < 2)
    [] condition = "enemiesAlive == 0" -> Bool(Len(Alive(Enemies(cs))) = 0)
    [] condition = "1 / 0" -> Throws
    [] condition = "boss.hp < 1" ->
         IF Has(cs, "boss") THEN Bool(Get(cs, "boss").currentHp < 1) ELSE Throws
    [] condition = "turn >=" -> Throws      \* parse: Unexpected token EOF

\* the loop of evaluate from the i-th trigger on; r is [engine, results]
\* the loop without its try/catch: an error ends the call where it is thrown
RECURSIVE EvaluateFrom_NoCatch(_, _, _, _)
EvaluateFrom_NoCatch(r, i, turnNumber, cs) ==
  IF i > Len(r.engine.triggers) THEN r
  ELSE LET trigger == r.engine.triggers[i]
           conditionResult == compute(trigger.condition, turnNumber, cs)
       IN IF canFire(r.engine, trigger) /\ conditionResult = Throws THEN r
          ELSE IF canFire(r.engine, trigger) /\ conditionResult # 0
          THEN EvaluateFrom_NoCatch([engine |-> [recordFire(r.engine, trigger)
                                                  EXCEPT !.fires[i] = @ + 1],
                                     results |-> Append(r.results, trigger.action)],
                                    i + 1, turnNumber, cs)
          ELSE EvaluateFrom_NoCatch(r, i + 1, turnNumber, cs)

RECURSIVE EvaluateFrom(_, _, _, _)
EvaluateFrom(r, i, turnNumber, cs) ==
  IF i > Len(r.engine.triggers) THEN r
  ELSE LET trigger == r.engine.triggers[i]
           conditionResult == compute(trigger.condition, turnNumber, cs)
       IN IF canFire(r.engine, trigger) /\ conditionResult # Throws /\ conditionResult # 0
          THEN EvaluateFrom([engine |-> [recordFire(r.engine, trigger) EXCEPT !.fires[i] = @ + 1],
                             results |-> Append(r.results, trigger.action)],
                            i + 1, turnNumber, cs)
          ELSE EvaluateFrom(r, i + 1, turnNumber, cs)

evaluate(engine, turnNumber, cs) ==
  EvaluateFrom([engine |-> engine, results |-> <<>>], 1, turnNumber, cs)

----------------------------------------------------------------------------
(* EnemyAI.  selectAction returns the set of actions the random draws can  *)
(* give.  A CombatAction is [type, actorId, skillId, itemId, targetIds];   *)
(* "" and <<>> stand for fields that are left out.                         *)

CombatAction(type, actorId, skillId, itemId, targetIds) ==
  [type |-> type, actorId |-> actorId, skillId |-> skillId, itemId |-> itemId,
   targetIds |-> targetIds]

NullAction == CombatAction("null", "", "", "", <<>>)

DefendAction(actorId) == CombatAction("defend", actorId, "", "", <<>>)

DEFAULT_AI_CONFIG == AIConfig("balanced", 30, 20, "random", <<>>)[1]

MergeConfig(aiConfig) ==
  IF aiConfig = NoAI THEN DEFAULT_AI_CONFIG
  ELSE LET c == aiConfig[1]
       IN [behavior |-> c.behavior,
           healThreshold |-> IF c.healThreshold = NoNum THEN 30 ELSE c.healThreshold,
           defendThreshold |-> IF c.defendThreshold = NoNum THEN 20 ELSE c.defendThreshold,
           preferTargets |-> IF c.preferTargets = "" THEN "random" ELSE c.preferTargets,
           skillPriority |-> c.skillPriority]

RECURSIVE getAvailableSkills(_)
getAvailableSkills(skillIds) ==
  IF skillIds = <<>> THEN <<>>
  ELSE getSkillById(Head(skillIds)) \o getAvailableSkills(Tail(skillIds))

IsAttack(skill) == skill.type \in {"physical", "magic"}

Power0(skill) == IF skill.power = NoNum THEN 0 ELSE skill.power

\* targets.reduce(...): the first target with the least (greatest) currentHp
selectTarget(targets, preference) ==
  CASE preference = "weakest" ->
         {targets[CHOOSE i \in 1..Len(targets) :
             /\ \A j \in 1..Len(targets) : targets[i].currentHp <= targets[j].currentHp
             /\ \A j \in 1..(i - 1) : targets[j].currentHp > targets[i].currentHp]}
    [] preference = "strongest" ->
         {targets[CHOOSE i \in 1..Len(targets) :
             /\ \A j \in 1..Len(targets) : targets[i].currentHp >= targets[j].currentHp
             /\ \A j \in 1..(i - 1) : targets[j].currentHp < targets[i].currentHp]}
    [] OTHER -> Range(targets)

getTargetIds(skill, primaryTarget, allTargets) ==
  IF skill.type = "healing" \/ skill.type = "buff" \/ skill.target = "self" THEN <<primaryTarget.id>>
  ELSE IF skill.target = "all" THEN [i \in 1..Len(allTargets) |-> allTargets[i].id]
  ELSE <<primaryTarget.id>>

SkillAction(enemy, skill, targetIds) == CombatAction("skill", enemy.id, skill.id, "", targetIds)

basicAttack(enemy, targets, preference) ==
  {CombatAction("skill", enemy.id, "basic_attack", "", <<t.id>>) : t \in selectTarget(targets, preference)}

Affordable(enemy, skills) == SelectSeq(skills, LAMBDA sk : sk.mpCost <= enemy.currentMp)

OfType(skills, type) == SelectSeq(skills, LAMBDA sk : sk.type = type)

\* (currentHp / maxHp) * 100 <= threshold; a division by 0 gives Infinity or NaN
HpPercentAtMost(enemy, threshold) ==
  enemy.maxHp > 0 /\ enemy.currentHp * 100 <= threshold * enemy.maxHp

aggressiveBehavior(enemy, skills, targets, config) ==
  LET attackSkills == SortStable(SelectSeq(skills, IsAttack),
                                 LAMBDA a, b : Power0(a) > Power0(b))
      affordable == Affordable(enemy, attackSkills)
  IN IF attackSkills = <<>> THEN {DefendAction(enemy.id)}
     ELSE IF affordable = <<>> THEN basicAttack(enemy, targets, "weakest")
     ELSE {SkillAction(enemy, affordable[1], getTargetIds(affordable[1], t, targets)) :
             t \in selectTarget(targets, IF config.preferTargets = "random" THEN "weakest"
                                         ELSE config.preferTargets)}

defensiveBehavior(enemy, skills, targets, config) ==
  LET healSkills == Affordable(enemy, OfType(skills, "healing"))
      attackSkills == SortStable(Affordable(enemy, SelectSeq(skills, IsAttack)),
                                 LAMBDA a, b : Power0(a) < Power0(b))
  IN IF HpPercentAtMost(enemy, config.healThreshold) /\ healSkills # <<>>
     THEN {SkillAction(enemy, healSkills[1], <<enemy.id>>)}
     ELSE IF HpPercentAtMost(enemy, config.defendThreshold) THEN {DefendAction(enemy.id)}
     ELSE IF attackSkills # <<>>
     THEN {SkillAction(enemy, attackSkills[1], getTargetIds(attackSkills[1], t, targets)) :
             t \in selectTarget(targets, config.preferTargets)}
     ELSE {DefendAction(enemy.id)}

balancedBehavior(enemy, skills, targets, config) ==
  LET healSkills == Affordable(enemy, OfType(skills, "healing"))
      buffSkills == Affordable(enemy, OfType(skills, "buff"))
      debuffSkills == Affordable(enemy, OfType(skills, "debuff"))
      attackSkills == Affordable(enemy, SelectSeq(skills, IsAttack))
  IN IF HpPercentAtMost(enemy, config.healThreshold) /\ healSkills # <<>>
     THEN {SkillAction(enemy, healSkills[1], <<enemy.id>>)}
     ELSE (IF buffSkills # <<>> THEN {SkillAction(enemy, buffSkills[1], <<enemy.id>>)} ELSE {})
          \cup (IF debuffSkills # <<>>
                THEN {SkillAction(enemy, debuffSkills[1], <<t.id>>) :
                        t \in selectTarget(targets, "strongest")}
                ELSE {})
          \cup (IF attackSkills # <<>>
                THEN UNION {{SkillAction(enemy, sk, getTargetIds(sk, t, targets)) :
                               t \in selectTarget(targets, config.preferTargets)} :
                            sk \in Range(attackSkills)}
                ELSE {DefendAction(enemy.id)})

\* a random choice among all skills, affordable or not
randomBehavior_AnySkill(enemy, skills, targets) ==
  IF skills = <<>> THEN {DefendAction(enemy.id)}
  ELSE UNION {{SkillAction(enemy, sk, getTargetIds(sk, t, targets)) :
                 t \in selectTarget(targets, "random")} :
              sk \in Range(skills)}

randomBehavior(enemy, skills, targets) ==
  LET affordableSkills == Affordable(enemy, skills)
  IN IF affordableSkills = <<>> THEN {DefendAction(enemy.id)}
     ELSE UNION {{SkillAction(enemy, sk, getTargetIds(sk, t, targets)) :
                    t \in selectTarget(targets, "random")} :
                 sk \in Range(affordableSkills)}

scriptedBehavior(enemy, skills, targets, turnNumber, config) ==
  LET n == Len(config.skillPriority)
      prioritySkills == IF n = 0 THEN <<>>
                        ELSE Affordable(enemy, SelectSeq(skills, LAMBDA sk :
                               sk.id = config.skillPriority[(turnNumber % n) + 1]))
      buffSkills == Affordable(enemy, OfType(skills, "buff"))
  IN IF prioritySkills # <<>>
     THEN {SkillAction(enemy, prioritySkills[1], getTargetIds(prioritySkills[1], t, targets)) :
             t \in selectTarget(targets, config.preferTargets)}
     ELSE IF turnNumber % 3 = 0 /\ buffSkills # <<>>
     THEN {SkillAction(enemy, buffSkills[1], <<enemy.id>>)}
     ELSE balancedBehavior(enemy, skills, targets, config)

EnemyAI_selectAction(enemy, turnNumber, cs, aiConfig) ==
  LET config == MergeConfig(aiConfig)
      players == SelectSeq(cs, LAMBDA c : c.isPlayer /\ c.isAlive)
      skills == getAvailableSkills(enemy.skills)
  IN IF players = <<>> THEN {DefendAction(enemy.id)}
     ELSE CASE config.behavior = "aggressive" -> aggressiveBehavior(enemy, skills, players, config)
            [] config.behavior = "defensive" -> defensiveBehavior(enemy, skills, players, config)
            [] config.behavior = "balanced" -> balancedBehavior(enemy, skills, players, config)
            [] config.behavior = "scripted" ->
                 scriptedBehavior(enemy, skills, players, turnNumber, config)
            [] OTHER -> randomBehavior(enemy, skills, players)

----------------------------------------------------------------------------
(* CombatStateMachine.  The machine state is passed through the call chain *)
(* as a record s with the fields of the class, the trigger engine, and     *)
(* three fields that only observe one command: trace (what the command     *)
(* did, in order), emitted (emit was called) and overflow (the call chain  *)
(* did not end within MaxDepth nested startTurn calls).  listeners is the  *)
(* set of subscribed functions, parser a FormulaParser with its fields     *)
(* tokens and pos.  observed records what the turn starts did: the calls   *)
(* of evaluate made by the last command, the turns started for each        *)
(* combatant, and the timed modifiers the trigger actions put on.          *)

VARIABLES phase, turnNumber, turnQueue, currentTurnIndex, combatants, pendingAction,
          battleLog, dialogQueue, battleResult, previousPhase, enemyDefinitions,
          triggerEngine, trace, emitted, overflow,
          scene, lastOp, snapshot, resultWrites, dialogsLeft, resume,
          listeners, notified, parser, observed

machineVars == <<phase, turnNumber, turnQueue, currentTurnIndex, combatants, pendingAction,
                 battleLog, dialogQueue, battleResult, previousPhase, enemyDefinitions,
                 triggerEngine>>

vars == <<phase, turnNumber, turnQueue, currentTurnIndex, combatants, pendingAction,
          battleLog, dialogQueue, battleResult, previousPhase, enemyDefinitions,
          triggerEngine, trace, emitted, overflow, scene, lastOp, snapshot, resultWrites,
          dialogsLeft, resume, listeners, notified, parser, observed>>

\* the objects a snapshot holds by reference: the spread and new Map copy the
\* containers, not the combatants, queue entries and dialog entries in them, and
\* battleResult is returned as it is
SharedParts == {"combatant", "turnQueueEntry", "dialogEntry", "battleResult"}

getSnapshot(s) ==
  [isNull |-> FALSE,
   phase |-> s.phase,
   turnNumber |-> s.turnNumber,
   currentTurnIndex |-> s.currentTurnIndex,
   turnQueue |-> s.turnQueue,
   combatants |-> s.combatants,
   pendingAction |-> s.pendingAction,
   battleLog |-> s.battleLog,
   dialogQueue |-> s.dialogQueue,
   currentDialog |-> IF s.dialogQueue = <<>> THEN <<>> ELSE <<s.dialogQueue[1]>>,
   battleResult |-> s.battleResult,
   shared |-> SharedParts]

\* evaluations: one [at, fired] per call of triggerEngine.evaluate in the last
\* command, at the length the trace had and with the fires it added per trigger;
\* turnStarts: <<id, n>> for the n turns started for the living combatant id;
\* putOn: [target, modifier, duration, at] for a timed modifier added to target
\* when at turns had started for it; spawned: one [known, before, after] per
\* spawn action handled in the last command, with the combatants, the turn
\* queue and the enemy definitions before and after it
NoObservations == [evaluations |-> <<>>, turnStarts |-> {}, putOn |-> {}, spawned |-> <<>>]

TurnStarts(o, id) ==
  IF \E e \in o.turnStarts : e[1] = id
  THEN (CHOOSE e \in o.turnStarts : e[1] = id)[2]
  ELSE 0

StartedTurn(o, id) ==
  [o EXCEPT !.turnStarts = {e \in @ : e[1] # id} \cup {<<id, TurnStarts(o, id) + 1>>}]

PutOn(o, id, modifier, duration) ==
  [o EXCEPT !.putOn = {e \in @ : e.target # id \/ e.modifier # modifier}
                        \cup {[target |-> id, modifier |-> modifier, duration |-> duration,
                               at |-> TurnStarts(o, id)]}]

\* the modifiers of every combatant
ModifiersOf(cs) == [i \in 1..Len(cs) |-> [id |-> cs[i].id, modifiers |-> cs[i].modifiers]]

\* no emit so far in the command
NoEmit == [called |-> {}, seen |-> <<>>]

State ==
  [phase |-> phase, turnNumber |-> turnNumber, turnQueue |-> turnQueue,
   currentTurnIndex |-> currentTurnIndex, combatants |-> combatants,
   pendingAction |-> pendingAction, battleLog |-> battleLog, dialogQueue |-> dialogQueue,
   battleResult |-> battleResult, previousPhase |-> previousPhase,
   enemyDefinitions |-> enemyDefinitions, triggerEngine |-> triggerEngine,
   trace |-> <<>>, emitted |-> FALSE, overflow |-> FALSE, resultWrites |-> resultWrites,
   listeners |-> listeners, lastEmit |-> NoEmit,
   observed |-> [observed EXCEPT !.evaluations = <<>>, !.spawned = <<>>]]

\* the listeners called after the last change the command made to what
\* getSnapshot() returns
Notified(s) == IF s.lastEmit.seen = getSnapshot(s) THEN s.lastEmit.called ELSE {}

Assign(s) ==
  /\ phase' = s.phase
  /\ turnNumber' = s.turnNumber
  /\ turnQueue' = s.turnQueue
  /\ currentTurnIndex' = s.currentTurnIndex
  /\ combatants' = s.combatants
  /\ pendingAction' = s.pendingAction
  /\ battleLog' = s.battleLog
  /\ dialogQueue' = s.dialogQueue
  /\ battleResult' = s.battleResult
  /\ previousPhase' = s.previousPhase
  /\ enemyDefinitions' = s.enemyDefinitions
  /\ triggerEngine' = s.triggerEngine
  /\ trace' = s.trace
  /\ emitted' = s.emitted
  /\ overflow' = s.overflow
  /\ resultWrites' = s.resultWrites
  /\ notified' = Notified(s)
  /\ observed' = s.observed

NullResult == [isNull |-> TRUE]

TerminalPhases == {"victory", "defeat", "fled"}

log(s) == [s EXCEPT !.battleLog = Min2(@ + 1, MaxLog)]

\* every listener of the set is called; lastEmit keeps who was called and the
\* state a getSnapshot() in the listener returns
emit(s) ==
  [s EXCEPT !.emitted = TRUE,
            !.lastEmit = [called |-> s.listeners, seen |-> getSnapshot(s)]]

Ev(s, e) == [s EXCEPT !.trace = Append(@, e)]

\* initiatives are numbers; the average taken by spawnEnemy need not be an
\* integer, so an initiative is kept as the fraction n/d (0/0 is NaN)
Num(n) == [n |-> n, d |-> 1]

NaN == [n |-> 0, d |-> 0]

Reduce(n, d) ==
  IF d = 0 THEN NaN
  ELSE LET g == Gcd(IF n < 0 THEN 0 - n ELSE n, d) IN [n |-> n \div g, d |-> d \div g]

AddNum(x, y) == IF x.d = 0 \/ y.d = 0 THEN NaN ELSE Reduce(x.n * y.d + y.n * x.d, x.d * y.d)

RECURSIVE SumInitiative(_)
SumInitiative(q) ==
  IF q = <<>> THEN Num(0) ELSE AddNum(Head(q).initiative, SumInitiative(Tail(q)))

createCombatant(source, isPlayer) ==
  LET level == IF isPlayer THEN source.level ELSE 1
      computedStats == getCompleteStats(source.baseStats, level)
  IN [id |-> source.id, isPlayer |-> isPlayer, baseStats |-> source.baseStats,
      currentStats |-> computedStats,
      currentHp |-> computedStats.MaxHP, currentMp |-> computedStats.MaxMP,
      maxHp |-> computedStats.MaxHP, maxMp |-> computedStats.MaxMP,
      skills |-> source.skills, modifiers |-> <<>>,
      isDefending |-> FALSE, isAlive |-> TRUE, level |-> level]

recalculateStats(combatant) ==
  LET currentStats == applyToStats(combatant.modifiers,
                                   getCompleteStats(combatant.baseStats, combatant.level))
  IN [combatant EXCEPT !.currentStats = currentStats,
                       !.maxHp = currentStats.MaxHP,
                       !.maxMp = currentStats.MaxMP]

\* enemyDefinitions is a Map<string, Enemy>, kept as a sequence of [id, def]
DefFor(defs, id) ==
  LET found == SelectSeq(defs, LAMBDA e : e.id = id)
  IN IF found = <<>> THEN <<>> ELSE <<found[1].def>>

SetDef(defs, id, def) ==
  IF \E i \in 1..Len(defs) : defs[i].id = id
  THEN [i \in 1..Len(defs) |-> IF defs[i].id = id THEN [id |-> id, def |-> def] ELSE defs[i]]
  ELSE Append(defs, [id |-> id, def |-> def])

\* the id initialize gives to enemies[index] (index counts from 0)
InitialEnemyId(enemies, index) ==
  IF \E i \in 1..index : enemies[i].id = enemies[index + 1].id
  THEN enemies[index + 1].id \o "_" \o ToString(index)
  ELSE enemies[index + 1].id

RECURSIVE AddEnemies(_, _, _)
AddEnemies(s, enemies, index) ==
  IF index >= Len(enemies) THEN s
  ELSE LET enemyId == InitialEnemyId(enemies, index)
           enemy == enemies[index + 1]
       IN AddEnemies([s EXCEPT !.combatants =
                          Put(@, createCombatant([enemy EXCEPT !.id = enemyId], FALSE)),
                        !.enemyDefinitions = SetDef(@, enemyId, enemy)],
                     enemies, index + 1)

initialize(s, player, enemies) ==
  LET s0 == [s EXCEPT !.combatants = <<createCombatant(player, TRUE)>>,
                      !.enemyDefinitions = <<>>,
                      !.battleLog = 0,
                      !.dialogQueue = <<>>,
                      !.pendingAction = NullAction,
                      !.battleResult = NullResult]
      s1 == AddEnemies(s0, enemies, 0)
  IN emit(log([s1 EXCEPT !.phase = "start", !.turnNumber = 0]))

getCurrentCombatant(s) ==
  IF s.currentTurnIndex < Len(s.turnQueue)
       /\ Has(s.combatants, s.turnQueue[s.currentTurnIndex + 1].combatantId)
  THEN <<Get(s.combatants, s.turnQueue[s.currentTurnIndex + 1].combatantId)>>
  ELSE <<>>

\* Math.floor(Math.random() * 10) takes every value of 0..9; the runs explored
\* draw the two extreme values
VarianceRolls == {0, VarianceSpan - 1}

\* the entry of the "order" event that the recomputation leaves in the trace
OrderEvent(s, queue, living) ==
  [ev |-> "order", queue |-> queue, index |-> s.currentTurnIndex,
   living |-> {<<c.id, c.currentStats.Speed>> : c \in Range(living)},
   dead |-> {c.id : c \in Range(s.combatants)} \ {c.id : c \in Range(living)}]

\* calculateTurnOrder sorting by initiative, lowest first
calculateTurnOrder_Ascending(s) ==
  LET living == Alive(s.combatants)
  IN { LET entries == [i \in 1..Len(living) |->
                         [combatantId |-> living[i].id,
                          initiative |-> Num(living[i].currentStats.Speed + variance[i])]]
           queue == SortStable(entries, LAMBDA a, b : a.initiative.n < b.initiative.n)
       IN Ev([s EXCEPT !.turnQueue = queue], OrderEvent(s, queue, living))
       : variance \in [1..Len(living) -> VarianceRolls] }

calculateTurnOrder(s) ==
  LET living == Alive(s.combatants)
  IN { LET entries == [i \in 1..Len(living) |->
                         [combatantId |-> living[i].id,
                          initiative |-> Num(living[i].currentStats.Speed + variance[i])]]
           queue == SortStable(entries, LAMBDA a, b : a.initiative.n > b.initiative.n)
       IN Ev([s EXCEPT !.turnQueue = queue], OrderEvent(s, queue, living))
       : variance \in [1..Len(living) -> VarianceRolls] }

\* the first id of baseId, baseId_1, baseId_2, ... that no combatant has
RECURSIVE UniqueId(_, _, _)
UniqueId(cs, baseId, counter) ==
  LET enemyId == IF counter = 0 THEN baseId ELSE baseId \o "_" \o ToString(counter)
  IN IF Has(cs, enemyId) THEN UniqueId(cs, baseId, counter + 1) ELSE enemyId

\* the part of the machine a spawn action works on
Battlefield(s) ==
  [combatants |-> s.combatants, turnQueue |-> s.turnQueue,
   enemyDefinitions |-> s.enemyDefinitions]

Spawned(s, known, s1) ==
  [s1 EXCEPT !.observed.spawned =
     Append(@, [known |-> known, before |-> Battlefield(s), after |-> Battlefield(s1)])]

\* spawnEnemy storing the enemy under the id of its definition
spawnEnemy_KeepsId(s, enemy) ==
  LET enemyId == enemy.id
      sum == SumInitiative(s.turnQueue)
      avgInitiative == IF sum.d = 0 THEN NaN ELSE Reduce(sum.n, sum.d * Len(s.turnQueue))
  IN Spawned(s, TRUE,
       log([s EXCEPT !.combatants = Put(@, createCombatant([enemy EXCEPT !.id = enemyId], FALSE)),
                     !.enemyDefinitions = SetDef(@, enemyId, enemy),
                     !.turnQueue = Append(@, [combatantId |-> enemyId,
                                              initiative |-> avgInitiative])]))

spawnEnemy(s, enemy) ==
  LET enemyId == UniqueId(s.combatants, enemy.id, 0)
      sum == SumInitiative(s.turnQueue)
      avgInitiative == IF sum.d = 0 THEN NaN ELSE Reduce(sum.n, sum.d * Len(s.turnQueue))
  IN Spawned(s, TRUE,
       log([s EXCEPT !.combatants = Put(@, createCombatant([enemy EXCEPT !.id = enemyId], FALSE)),
                     !.enemyDefinitions = SetDef(@, enemyId, enemy),
                     !.turnQueue = Append(@, [combatantId |-> enemyId,
                                              initiative |-> avgInitiative])]))

showNextDialog(s) == emit([s EXCEPT !.previousPhase = s.phase, !.phase = "dialog"])

DialogEntry(speaker, text, choices) == [speaker |-> speaker, text |-> text, choices |-> choices]

queueDialog(s, speaker, text, choices) ==
  LET s1 == [s EXCEPT !.dialogQueue = Append(@, DialogEntry(speaker, text, choices))]
  IN IF s1.phase # "dialog" THEN showNextDialog(s1) ELSE s1

\* the target of a buff, heal, damage or transform action: <<>> for none
ActionTarget(s, action) ==
  IF action.target # ""
  THEN (IF Has(s.combatants, action.target) THEN <<Get(s.combatants, action.target)>> ELSE <<>>)
  ELSE getCurrentCombatant(s)

Clock == 0..MaxClock

RECURSIVE handleTriggerAction(_, _)
RECURSIVE HandleAll(_, _)

handleTriggerAction(s, action) ==
  CASE action.type = "dialog" ->
         {queueDialog(s, action.speaker, action.text, action.choices)}
    [] action.type = "spawn" ->
         LET enemyDef == FindById(GameEnemies, action.enemyId)
         IN IF enemyDef # <<>> THEN {spawnEnemy(s, enemyDef[1])} ELSE {Spawned(s, FALSE, s)}
    [] action.type = "buff" ->
         LET target == ActionTarget(s, action)
         IN IF target = <<>> THEN {s}
            ELSE { LET definition == ModifierDefinition("trigger_buff_" \o ToString(now),
                                       <<ModifierEffect(action.stat, "flat", action.value)>>,
                                       IF action.duration = NoNum THEN 3 ELSE action.duration,
                                       FALSE, NoNum)
                       buffed == [target[1] EXCEPT !.modifiers = addModifier(@, definition, "buff")]
                       o == IF HasModifier(target[1].modifiers, definition.id) THEN s.observed
                            ELSE PutOn(s.observed, target[1].id, definition.id, definition.duration)
                   IN log([s EXCEPT !.combatants = Put(@, recalculateStats(buffed)),
                                    !.observed = o])
                   : now \in Clock }
    [] action.type = "heal" ->
         LET target == ActionTarget(s, action)
         IN IF target # <<>> /\ target[1].isAlive
            THEN {log([s EXCEPT !.combatants = Put(@, [target[1] EXCEPT !.currentHp =
                          Min2(target[1].maxHp, @ + action.amount)])])}
            ELSE {s}
    [] action.type = "damage" ->
         LET target == ActionTarget(s, action)
         IN IF target # <<>> /\ target[1].isAlive
            THEN LET hp == Max2(0, target[1].currentHp - action.amount)
                 IN IF hp <= 0
                    THEN {log(log([s EXCEPT !.combatants = Put(@,
                             [target[1] EXCEPT !.currentHp = hp, !.isAlive = FALSE])]))}
                    ELSE {log([s EXCEPT !.combatants = Put(@, [target[1] EXCEPT !.currentHp = hp])])}
            ELSE {s}
    [] action.type = "flee" ->
         IF action.target # "" /\ Has(s.combatants, action.target)
              /\ ~Get(s.combatants, action.target).isPlayer
         THEN {log([s EXCEPT !.combatants = Put(@,
                  [Get(s.combatants, action.target) EXCEPT !.isAlive = FALSE])])}
         ELSE {s}
    [] action.type = "transform" ->
         LET target == ActionTarget(s, action)
             newEnemy == FindById(GameEnemies, action.newEnemyId)
         IN IF target # <<>> /\ newEnemy # <<>> /\ ~target[1].isPlayer /\ target[1].maxHp # 0
            THEN LET newStats == getCompleteStats(newEnemy[1].baseStats, 1)
                     t == target[1]
                 IN {log([s EXCEPT
                       !.combatants = Put(@, [t EXCEPT
                          !.baseStats = newEnemy[1].baseStats,
                          !.currentStats = newStats,
                          !.maxHp = newStats.MaxHP,
                          !.maxMp = newStats.MaxMP,
                          !.currentHp = (newStats.MaxHP * t.currentHp) \div t.maxHp,
                          !.skills = newEnemy[1].skills]),
                       !.enemyDefinitions = SetDef(@, t.id, newEnemy[1])])}
            ELSE {s}
    [] action.type = "multi" -> HandleAll({s}, action.actions)
    [] OTHER -> {s}

\* handle the actions one after the other, from each state of S
HandleAll(S, actions) ==
  IF actions = <<>> THEN S
  ELSE HandleAll(UNION {handleTriggerAction(s, Head(actions)) : s \in S}, Tail(actions))

checkTriggers(s) ==
  LET r == evaluate(s.triggerEngine, s.turnNumber, s.combatants)
      fired == [i \in 1..Len(r.engine.fires) |-> r.engine.fires[i] - s.triggerEngine.fires[i]]
      s1 == [s EXCEPT !.triggerEngine = r.engine,
                      !.observed.evaluations = Append(@, [at |-> Len(s.trace), fired |-> fired])]
      s2 == IF \E i \in 1..Len(r.results) : r.results[i].type = "dialog"
            THEN Ev(s1, [ev |-> "triggerDialog"]) ELSE s1
  IN HandleAll({s2}, r.results)

RECURSIVE logN(_, _)
logN(s, n) == IF n <= 0 THEN s ELSE logN(log(s), n - 1)

\* phase-independent tail of executeSkill and executeItem: log the effects and
\* the defeated targets, recalculate the stats of buffed and debuffed targets
RECURSIVE RecalculateAffected(_, _)
RecalculateAffected(cs, effects) ==
  IF effects = <<>> THEN cs
  ELSE LET e == Head(effects)
       IN RecalculateAffected(
            IF e.type \in {"buff", "debuff"} /\ Has(cs, e.targetId)
            THEN Put(cs, recalculateStats(Get(cs, e.targetId))) ELSE cs,
            Tail(effects))

AfterAction(s, result) ==
  logN([s EXCEPT !.combatants = RecalculateAffected(result.cs, result.effects)],
       Len(result.effects) + Len(result.killedTargets))

RECURSIVE BasicAttackTargets(_, _, _)
BasicAttackTargets(s, actorId, targetIds) ==
  IF targetIds = <<>> THEN s
  ELSE IF ~Has(s.combatants, Head(targetIds)) \/ ~Get(s.combatants, Head(targetIds)).isAlive
  THEN BasicAttackTargets(s, actorId, Tail(targetIds))
  ELSE LET actor == Get(s.combatants, actorId)
           target == Get(s.combatants, Head(targetIds))
           attack == actor.currentStats.Attack
           defense == target.currentStats.Defense
           baseDamage == Max2(1, (attack * 100) \div (100 + defense))
           actualDamage == IF target.isDefending THEN baseDamage \div 2 ELSE baseDamage
           hp == Max2(0, target.currentHp - actualDamage)
           s1 == log([s EXCEPT !.combatants = Put(@, [target EXCEPT
                        !.currentHp = hp, !.isAlive = IF hp <= 0 THEN FALSE ELSE @])])
       IN BasicAttackTargets(IF hp <= 0 THEN log(s1) ELSE s1, actorId, Tail(targetIds))

executeBasicAttack(s, actorId, action) == BasicAttackTargets(log(s), actorId, action.targetIds)

CSM_executeSkill(s, actorId, action) ==
  LET skill == getSkillById(action.skillId)
  IN IF skill = <<>> THEN {executeBasicAttack(s, actorId, action)}
     ELSE { IF result.success THEN AfterAction(log(s), result) ELSE log(s)
            : result \in executeSkill(s.combatants, actorId, skill[1],
                                      Existing(s.combatants, action.targetIds)) }

CSM_executeItem(s, actorId, action) ==
  LET item == getItemById(action.itemId)
  IN IF item = <<>> THEN log(s)
     ELSE AfterAction(log(s), executeItem(s.combatants, actorId, item[1],
                                          Existing(s.combatants, action.targetIds)))

executeDefend(s, actorId) ==
  log([s EXCEPT !.combatants = Put(@, [Get(s.combatants, actorId) EXCEPT !.isDefending = TRUE])])

\* rollDrop: Math.random() * 100 < drop.chance
rollDrop(drop) ==
  IF drop.chance <= 0 THEN {FALSE} ELSE IF drop.chance >= 100 THEN {TRUE} ELSE {TRUE, FALSE}

AddDrop(droppedItems, drop) ==
  LET count == IF drop.count = NoNum THEN 1 ELSE drop.count
  IN IF \E i \in 1..Len(droppedItems) : droppedItems[i].itemId = drop.itemId
     THEN LET k == CHOOSE i \in 1..Len(droppedItems) : droppedItems[i].itemId = drop.itemId
          IN [droppedItems EXCEPT ![k].count = @ + count]
     ELSE Append(droppedItems, [itemId |-> drop.itemId, count |-> count])

RECURSIVE RollDrops(_, _)
RollDrops(droppedItems, drops) ==
  IF drops = <<>> THEN {droppedItems}
  ELSE UNION { RollDrops(IF hit THEN AddDrop(droppedItems, Head(drops)) ELSE droppedItems,
                         Tail(drops))
               : hit \in rollDrop(Head(drops)) }

\* the loop of calculateRewards over enemyDefinitions, from a running total
RECURSIVE RewardsFrom(_, _)
RewardsFrom(rewards, defs) ==
  IF defs = <<>> THEN {rewards}
  ELSE LET enemyDef == Head(defs).def
       IN UNION { RewardsFrom([exp |-> rewards.exp + enemyDef.exp,
                               gold |-> rewards.gold
                                          + (IF enemyDef.gold = NoNum THEN 0 ELSE enemyDef.gold),
                               items |-> items],
                              Tail(defs))
                  : items \in RollDrops(rewards.items, enemyDef.drops) }

calculateRewards(s) == RewardsFrom([exp |-> 0, gold |-> 0, items |-> <<>>], s.enemyDefinitions)

createBattleResult(s, victory, players, rewards) ==
  LET alive == Alive(players)
  IN [victory |-> victory, rewards |-> rewards,
      survivingPlayers |-> [i \in 1..Len(alive) |->
         [id |-> alive[i].id, remainingHp |-> alive[i].currentHp, maxHp |-> alive[i].maxHp,
          remainingMp |-> alive[i].currentMp, maxMp |-> alive[i].maxMp]],
      turnCount |-> s.turnNumber]

logRewards(s, rewards) ==
  logN(s, 1 + Bool(rewards.exp > 0) + Bool(rewards.gold > 0) + Len(rewards.items))

SetResult(s, result) ==
  [s EXCEPT !.battleResult = result, !.resultWrites = Min2(@ + 1, MaxWrites)]

\* checkBattleEnd looking at the enemies before the players
checkBattleEnd_EnemiesFirst(s) ==
  LET players == Players(s.combatants)
      enemies == Enemies(s.combatants)
      allPlayersDead == \A i \in 1..Len(players) : ~players[i].isAlive
      allEnemiesDead == \A i \in 1..Len(enemies) : ~enemies[i].isAlive
  IN IF allEnemiesDead
     THEN { emit(logRewards(SetResult([s EXCEPT !.phase = "victory"],
                                      createBattleResult(s, TRUE, players, <<rewards>>)),
                            rewards))
            : rewards \in calculateRewards(s) }
     ELSE IF allPlayersDead
     THEN {emit(log(SetResult([s EXCEPT !.phase = "defeat"],
                              createBattleResult(s, FALSE, players, <<>>))))}
     ELSE {s}

checkBattleEnd(s) ==
  LET players == Players(s.combatants)
      enemies == Enemies(s.combatants)
      allPlayersDead == \A i \in 1..Len(players) : ~players[i].isAlive
      allEnemiesDead == \A i \in 1..Len(enemies) : ~enemies[i].isAlive
  IN IF allPlayersDead
     THEN {emit(log(SetResult([s EXCEPT !.phase = "defeat"],
                              createBattleResult(s, FALSE, players, <<>>))))}
     ELSE IF allEnemiesDead
     THEN { emit(logRewards(SetResult([s EXCEPT !.phase = "victory"],
                                      createBattleResult(s, TRUE, players, <<rewards>>)),
                            rewards))
            : rewards \in calculateRewards(s) }
     ELSE {s}

RECURSIVE startTurn(_, _)
RECURSIVE nextTurn(_, _)
RECURSIVE executeAction(_, _)

\* the ids of the combatants whose isDefending is set
Defending(cs) == {cs[i].id : i \in {j \in 1..Len(cs) : cs[j].isDefending}}

\* endTurn evaluating the triggers once more after the action
endTurn_ChecksTriggers(s, fuel) ==
  UNION { nextTurn(Ev(emit([s1 EXCEPT !.phase = "turn_end"]), [ev |-> "turn_end"]), fuel)
          : s1 \in checkTriggers(s) }

endTurn(s, fuel) == nextTurn(Ev(emit([s EXCEPT !.phase = "turn_end"]), [ev |-> "turn_end"]), fuel)

nextTurn(s, fuel) ==
  LET s1 == [s EXCEPT !.currentTurnIndex = @ + 1]
  IN IF s1.currentTurnIndex >= Len(s1.turnQueue)
     THEN UNION { startTurn(s2, fuel)
                  : s2 \in calculateTurnOrder([s1 EXCEPT !.turnNumber = @ + 1,
                                                         !.currentTurnIndex = 0]) }
     ELSE startTurn(s1, fuel)

selectEnemyAction(s, enemyId, fuel) ==
  LET enemy == Get(s.combatants, enemyId)
      enemyDef == DefFor(s.enemyDefinitions, enemyId)
      ai == IF enemyDef = <<>> THEN NoAI ELSE enemyDef[1].ai
  IN UNION { executeAction(Ev([s EXCEPT !.pendingAction = action],
                              [ev |-> "ai", id |-> enemyId]), fuel)
             : action \in EnemyAI_selectAction(enemy, s.turnNumber, s.combatants, ai) }

\* startTurn ticking the modifiers of every combatant
startTurn_TicksEveryone(s, fuel) ==
  LET s0 == [s EXCEPT !.phase = "turn_start"]
      hasEntry == s0.currentTurnIndex < Len(s0.turnQueue)
      id == s0.turnQueue[s0.currentTurnIndex + 1].combatantId
  IN IF fuel = 0 THEN {[s0 EXCEPT !.overflow = TRUE]}
     ELSE IF ~hasEntry THEN nextTurn(s0, fuel - 1)
     ELSE IF ~Has(s0.combatants, id) \/ ~Get(s0.combatants, id).isAlive THEN nextTurn(s0, fuel - 1)
     ELSE LET combatant == Get(s0.combatants, id)
              ticked == tickDuration(combatant.modifiers)
              c1 == recalculateStats([combatant EXCEPT !.isDefending = FALSE,
                                                       !.modifiers = ticked.mods])
              everyone == [i \in 1..Len(s0.combatants) |->
                             [s0.combatants[i] EXCEPT !.modifiers = tickDuration(@).mods]]
              s1 == logN([s0 EXCEPT !.combatants = Put(everyone, c1),
                                    !.observed = StartedTurn(@, id)],
                         1 + Bool(Len(ticked.expired) > 0))
              s2 == Ev(s1, [ev |-> "turn", id |-> id, defending |-> Defending(s1.combatants),
                            before |-> ModifiersOf(s0.combatants),
                            after |-> ModifiersOf(s1.combatants),
                            combatant |-> c1])
          IN UNION { IF Get(s3.combatants, id).isPlayer
                     THEN {emit(Ev([s3 EXCEPT !.phase = "action_select"],
                                   [ev |-> "select", id |-> id]))}
                     ELSE {emit(s4) : s4 \in selectEnemyAction(s3, id, fuel - 1)}
                     : s3 \in checkTriggers(s2) }

startTurn(s, fuel) ==
  LET s0 == [s EXCEPT !.phase = "turn_start"]
      hasEntry == s0.currentTurnIndex < Len(s0.turnQueue)
      id == s0.turnQueue[s0.currentTurnIndex + 1].combatantId
  IN IF fuel = 0 THEN {[s0 EXCEPT !.overflow = TRUE]}
     ELSE IF ~hasEntry THEN nextTurn(s0, fuel - 1)
     ELSE IF ~Has(s0.combatants, id) \/ ~Get(s0.combatants, id).isAlive THEN nextTurn(s0, fuel - 1)
     ELSE LET combatant == Get(s0.combatants, id)
              ticked == tickDuration(combatant.modifiers)
              c1 == recalculateStats([combatant EXCEPT !.isDefending = FALSE,
                                                       !.modifiers = ticked.mods])
              s1 == logN([s0 EXCEPT !.combatants = Put(@, c1),
                                    !.observed = StartedTurn(@, id)],
                         1 + Bool(Len(ticked.expired) > 0))
              s2 == Ev(s1, [ev |-> "turn", id |-> id, defending |-> Defending(s1.combatants),
                            before |-> ModifiersOf(s0.combatants),
                            after |-> ModifiersOf(s1.combatants),
                            combatant |-> c1])
          IN UNION { IF Get(s3.combatants, id).isPlayer
                     THEN {emit(Ev([s3 EXCEPT !.phase = "action_select"],
                                   [ev |-> "select", id |-> id]))}
                     ELSE {emit(s4) : s4 \in selectEnemyAction(s3, id, fuel - 1)}
                     : s3 \in checkTriggers(s2) }

executeAction(s, fuel) ==
  IF s.pendingAction = NullAction THEN {s}
  ELSE LET s1 == emit([s EXCEPT !.phase = "action_execute"])
           action == s1.pendingAction
           actorId == action.actorId
       IN IF ~Has(s1.combatants, actorId) THEN endTurn(s1, fuel)
          ELSE LET executed ==
                     CASE action.type = "skill" -> CSM_executeSkill(s1, actorId, action)
                       [] action.type = "item" -> {CSM_executeItem(s1, actorId, action)}
                       [] action.type = "defend" -> {executeDefend(s1, actorId)}
                       [] OTHER -> {s1}
                   Checked(s2) ==
                     { Ev(s3, [ev |-> "execute", actor |-> actorId, type |-> action.type,
                               skillId |-> action.skillId,
                               defending |-> Defending(s3.combatants),
                               playersDead |-> \A c \in Range(Players(s2.combatants)) : ~c.isAlive,
                               enemiesDead |-> \A c \in Range(Enemies(s2.combatants)) : ~c.isAlive,
                               phase |-> s3.phase,
                               victory |-> IF s3.battleResult = NullResult THEN {}
                                           ELSE {s3.battleResult.victory}])
                       : s3 \in checkBattleEnd([s2 EXCEPT !.pendingAction = NullAction]) }
               IN UNION { UNION { IF s3.phase = "action_execute" THEN endTurn(s3, fuel) ELSE {s3}
                                  : s3 \in Checked(s2) }
                          : s2 \in executed }

\* the entry of the "flee" event: the roll and the machine as attemptFlee leaves it
\* before the turn ends
FleeEvent(s, success) ==
  [ev |-> "flee", success |-> success, combatants |-> s.combatants,
   pendingAction |-> s.pendingAction]

\* attemptFlee leaving the pending action in place when the flee fails
attemptFlee_PendingKept(s, fuel) ==
  {Ev(emit(log([s EXCEPT !.phase = "fled"])), FleeEvent(s, TRUE))}
    \cup endTurn(Ev(log(s), FleeEvent(s, FALSE)), fuel)

attemptFlee(s, fuel) ==
  {Ev(emit(log([s EXCEPT !.phase = "fled"])), FleeEvent(s, TRUE))}
    \cup LET s1 == log([s EXCEPT !.pendingAction = NullAction])
         IN endTurn(Ev(s1, FleeEvent(s1, FALSE)), fuel)

----------------------------------------------------------------------------
(* The public commands, as functions from a state to the set of states in  *)
(* which the command can return.                                           *)

start(s) ==
  UNION { startTurn([s1 EXCEPT !.turnNumber = 1, !.currentTurnIndex = 0], MaxDepth)
          : s1 \in calculateTurnOrder(s) }

selectAction(s, action) ==
  IF s.phase # "action_select" THEN {s}
  ELSE LET s1 == [s EXCEPT !.pendingAction = action]
       IN IF action.type = "defend" THEN executeAction(s1, MaxDepth)
          ELSE IF action.type = "flee" THEN attemptFlee(s1, MaxDepth)
          ELSE {emit([s1 EXCEPT !.phase = "target_select"])}

selectTargets(s, targetIds) ==
  IF s.phase # "target_select" \/ s.pendingAction = NullAction THEN {s}
  ELSE executeAction([s EXCEPT !.pendingAction.targetIds = targetIds], MaxDepth)

\* a cancel that goes back to action_select with the action still pending
cancelTargetSelection_KeepsPending(s) ==
  IF s.phase # "target_select" THEN s
  ELSE Ev(emit([s EXCEPT !.phase = "action_select"]), [ev |-> "cancel"])

cancelTargetSelection(s) ==
  IF s.phase # "target_select" THEN s
  ELSE Ev(emit([s EXCEPT !.pendingAction = NullAction, !.phase = "action_select"]),
          [ev |-> "cancel"])

HasChoices(dialog) == dialog.choices # <<>>

\* dismissDialog without the look at the dialog's choices
dismissDialog_ChoicesIgnored(s) ==
  LET s1 == [s EXCEPT !.dialogQueue = IF @ = <<>> THEN <<>> ELSE Tail(@)]
  IN IF s1.dialogQueue # <<>> THEN showNextDialog(s1)
     ELSE emit([s1 EXCEPT !.phase = s1.previousPhase])

dismissDialog(s) ==
  IF s.dialogQueue # <<>> /\ HasChoices(s.dialogQueue[1]) THEN s
  ELSE LET s1 == [s EXCEPT !.dialogQueue = IF @ = <<>> THEN <<>> ELSE Tail(@)]
       IN IF s1.dialogQueue # <<>> THEN showNextDialog(s1)
          ELSE emit([s1 EXCEPT !.phase = s1.previousPhase])

selectDialogChoice(s, choiceId) ==
  IF s.dialogQueue = <<>> \/ ~HasChoices(s.dialogQueue[1]) THEN {s}
  ELSE LET choice == FindById(s.dialogQueue[1].choices, choiceId)
       IN IF choice = <<>> THEN {s}
          ELSE { IF s2.dialogQueue # <<>> THEN showNextDialog(s2)
                 ELSE emit([s2 EXCEPT !.phase = s2.previousPhase])
                 : s2 \in (LET s1 == Ev([s EXCEPT !.dialogQueue = Tail(@)],
                                         [ev |-> "choice", id |-> choiceId])
                           IN IF choice[1].action # <<>>
                              THEN handleTriggerAction(s1, choice[1].action[1])
                              ELSE {s1}) }

----------------------------------------------------------------------------
(* Scenes and inputs *)

DialogAction(text, choices) ==
  [type |-> "dialog", speaker |-> "Narrator", text |-> text, choices |-> choices]

SpawnAction(enemyId) == [type |-> "spawn", enemyId |-> enemyId]

\* duration NoNum stands for a buff action without a duration
BuffAction(target, stat, value, duration) ==
  [type |-> "buff", target |-> target, stat |-> stat, value |-> value, duration |-> duration]

Scene(enemies, triggers) == [enemies |-> enemies, triggers |-> triggers]

PlainScene == Scene(<<"a">>, <<>>)

DialogScene == Scene(<<"a">>, <<Trigger("", "1", FALSE, 2, DialogAction("t", <<>>))>>)

SpawnScene ==
  Scene(<<"a", "a">>, <<Trigger("", "turn >= 2", TRUE, NoNum, SpawnAction("a_1"))>>)

Scenes == {PlainScene}

RECURSIVE EnemyList(_)
EnemyList(ids) ==
  IF ids = <<>> THEN <<>> ELSE FindById(GameEnemies, Head(ids)) \o EnemyList(Tail(ids))

Choice(id, action) == [id |-> id, action |-> action]

PlayerActions ==
  { CombatAction("defend", "hero", "", "", <<>>),
    CombatAction("flee", "hero", "", "", <<>>),
    CombatAction("skill", "hero", "strike", "", <<>>),
    CombatAction("skill", "hero", "fire", "", <<>>),
    CombatAction("item", "hero", "", "bomb", <<>>) }

TargetChoices ==
  {<<>>, [i \in 1..Len(combatants) |-> combatants[i].id]}
    \cup {<<c.id>> : c \in Range(combatants)}

ChoiceLists == {<<>>, <<Choice("yes", <<>>)>>}

ChoiceIds == {"yes", "no"}

NoSnapshot == [isNull |-> TRUE]

Started == turnNumber >= 1 /\ turnNumber <= MaxTurn /\ ~overflow

----------------------------------------------------------------------------
(* Actions *)

\* the state after construction for one of the scenes, with a client that will
\* call queueDialog up to the given number of times
InitWith(scenes, dialogs) ==
  /\ scene \in scenes
  /\ phase = "start"
  /\ turnNumber = 0
  /\ turnQueue = <<>>
  /\ currentTurnIndex = 0
  /\ combatants = <<>>
  /\ pendingAction = NullAction
  /\ battleLog = 0
  /\ dialogQueue = <<>>
  /\ battleResult = NullResult
  /\ previousPhase = "start"
  /\ enemyDefinitions = <<>>
  /\ triggerEngine = setTriggers(NewTriggerEngine, scene.triggers)
  /\ trace = <<>>
  /\ emitted = FALSE
  /\ listeners = {}
  /\ notified = {}
  /\ parser = [tokens |-> <<>>, pos |-> 0]
  /\ observed = NoObservations
  /\ overflow = FALSE
  /\ lastOp = "new"
  /\ snapshot = NoSnapshot
  /\ resultWrites = 0
  /\ dialogsLeft = dialogs
  /\ resume = ""

Init == InitWith(Scenes, MaxDialogs)

Idle(s) == s = State

\* resume is the phase a run of choiceless queueDialog dialogs preempted, "" outside
\* such a run: it is set when one is queued on an empty queue outside phase dialog,
\* kept while further choiceless ones are queued, and cleared when a dialog with
\* choices joins the queue or the queue runs empty
Resume(name, choices, s) ==
  IF name = "queueDialog"
  THEN IF choices # <<>> THEN ""
       ELSE IF dialogQueue = <<>> /\ phase # "dialog" THEN phase
       ELSE resume
  ELSE IF s.dialogQueue = <<>> THEN "" ELSE resume

CommandWith(name, choices, results) ==
  /\ \E s \in results :
       /\ IF Idle(s)
          THEN UNCHANGED <<machineVars, trace, emitted, overflow, resultWrites, lastOp,
                           notified, observed>>
          ELSE Assign(s) /\ lastOp' = "command"
       /\ resume' = Resume(name, choices, s)
  /\ dialogsLeft' = IF name = "queueDialog" THEN dialogsLeft - 1 ELSE dialogsLeft
  /\ UNCHANGED <<scene, snapshot, listeners, parser>>

Command(name, results) == CommandWith(name, <<>>, results)

Initialize ==
  /\ phase = "start" /\ combatants = <<>>
  /\ Command("initialize", {initialize(State, Player, EnemyList(scene.enemies))})

Start ==
  /\ phase = "start" /\ combatants # <<>> /\ turnNumber = 0
  /\ Command("start", start(State))

SelectAction ==
  /\ Started
  /\ \E action \in PlayerActions : Command("selectAction", selectAction(State, action))

SelectTargets ==
  /\ Started
  /\ \E targetIds \in TargetChoices : Command("selectTargets", selectTargets(State, targetIds))

CancelTargetSelection ==
  /\ Started
  /\ Command("cancelTargetSelection", {cancelTargetSelection(State)})

QueueDialog ==
  /\ Started
  /\ dialogsLeft > 0
  /\ \E choices \in ChoiceLists :
       CommandWith("queueDialog", choices, {queueDialog(State, "Narrator", "q", choices)})

DismissDialog ==
  /\ Started
  /\ Command("dismissDialog", {dismissDialog(State)})

SelectDialogChoice ==
  /\ Started
  /\ \E choiceId \in ChoiceIds :
       Command("selectDialogChoice", selectDialogChoice(State, choiceId))

Next ==
  \/ Initialize
  \/ Start
  \/ SelectAction
  \/ SelectTargets
  \/ CancelTargetSelection
  \/ QueueDialog
  \/ DismissDialog
  \/ SelectDialogChoice

Spec == Init /\ [][Next]_vars


----------------------------------------------------------------------------
(* Claims about the combat machine *)

HasEvent(tr, ev) == \E i \in 1..Len(tr) : tr[i].ev = ev

Vitals(cs) ==
  [i \in 1..Len(cs) |-> <<cs[i].id, cs[i].currentHp, cs[i].currentMp, cs[i].isAlive>>]

\* a step that starts no turn, executes no action and leaves every combatant as it was
BattleStays ==
  /\ turnNumber' = turnNumber
  /\ currentTurnIndex' = currentTurnIndex
  /\ Vitals(combatants') = Vitals(combatants)
  /\ phase' \notin {"action_select", "target_select"}
  /\ ~HasEvent(trace', "turn")
  /\ ~HasEvent(trace', "execute")

\* C1: once the phase is victory, defeat or fled, no public command starts another
\* turn or executes another action: turnNumber, currentTurnIndex and every
\* combatant's HP, MP and isAlive stay, and the phase does not become action_select
\* or target_select.
C1_TerminalIsFinal == [][(phase \in TerminalPhases) => BattleStays]_vars

\* C2: battleResult is assigned at most once in a battle; it is never replaced or
\* recomputed.
C2_ResultAssignedOnce == resultWrites <= 1


\* in a run of k choiceless dialogs queued from phase P, a dismissal takes one dialog
\* off the queue, and the one that empties the queue puts the phase back to P
DialogsResume ==
  /\ resume # "" /\ Len(dialogQueue') < Len(dialogQueue)
       => Len(dialogQueue') = Len(dialogQueue) - 1
  /\ resume # "" /\ dialogQueue # <<>> /\ dialogQueue' = <<>> => phase' = resume

\* C4: k >= 1 choiceless dialogs queued with queueDialog from a non-dialog phase P
\* keep the phase at 'dialog' while any of them is queued, and after exactly k
\* dismissDialog calls the queue is empty and the phase is P again.
C4_DialogsRestorePhase ==
  /\ [](resume # "" /\ dialogQueue # <<>> => phase = "dialog")
  /\ [][DialogsResume]_vars


\* a battle in a scene whose trigger shows a dialog at the start of a turn
InitTriggerDialog == InitWith({DialogScene}, 1)

SpecTriggerDialog == InitTriggerDialog /\ [][Next]_vars

\* after a trigger's dialog, the command's processing selects no action
NothingAfterTriggerDialog(tr) ==
  \A i \in 1..Len(tr) :
    tr[i].ev = "triggerDialog" =>
      \A j \in (i + 1)..Len(tr) : tr[j].ev \notin {"select", "ai", "execute"}

\* C5: when a trigger fires a dialog during a turn start, processing stops in phase
\* 'dialog' with that dialog queued, and neither the player's action selection nor
\* the enemy AI's action for that turn happens before the dialog is dismissed.
C5_TriggerDialogPreemptsTurn ==
  HasEvent(trace, "triggerDialog") =>
    /\ phase = "dialog"
    /\ dialogQueue # <<>>
    /\ NothingAfterTriggerDialog(trace)


\* C6: after every executed action: if every player is dead the phase becomes defeat
\* with battleResult.victory = false, also when every enemy is dead too; otherwise if
\* every enemy is dead the phase becomes victory with battleResult.victory = true; in
\* both cases no turn_end and no further turn follows; otherwise the turn ends and
\* the next combatant's turn starts.
C6_OutcomeAfterAction ==
  \A i \in 1..Len(trace) :
    trace[i].ev = "execute" =>
      IF trace[i].playersDead
      THEN trace[i].phase = "defeat" /\ trace[i].victory = {FALSE} /\ i = Len(trace)
      ELSE IF trace[i].enemiesDead
      THEN trace[i].phase = "victory" /\ trace[i].victory = {TRUE} /\ i = Len(trace)
      ELSE /\ trace[i].phase = "action_execute"
           /\ i < Len(trace)
           /\ trace[i + 1].ev = "turn_end"
           /\ \E j \in (i + 2)..Len(trace) : trace[j].ev = "turn"

\* an action has left both sides dead
C6_BothSidesDead ==
  \E i \in 1..Len(trace) :
    trace[i].ev = "execute" /\ trace[i].playersDead /\ trace[i].enemiesDead

\* a battle against three enemies, the third declared with the id 'a_1'
CrowdScene == Scene(<<"a", "a", "a_1">>, <<>>)

InitCrowd == InitWith({CrowdScene}, 1)

SpecCrowd == InitCrowd /\ [][Next]_vars

Gold(enemy) == IF enemy.gold = NoNum THEN 0 ELSE enemy.gold

\* the enemies a spawn trigger has added so far
RECURSIVE SpawnedBy(_, _)
SpawnedBy(engine, i) ==
  IF i > Len(engine.triggers) THEN <<>>
  ELSE LET action == engine.triggers[i].action
           enemy == IF action.type = "spawn" THEN FindById(GameEnemies, action.enemyId)
                    ELSE <<>>
       IN (IF enemy = <<>> THEN <<>> ELSE [k \in 1..engine.fires[i] |-> enemy[1]])
            \o SpawnedBy(engine, i + 1)

\* every enemy that has been part of the battle: those passed to initialize and
\* those spawned since
EverEnemies == EnemyList(scene.enemies) \o SpawnedBy(triggerEngine, 1)

\* C7: on victory rewards.exp and rewards.gold are the sums of exp and gold (missing
\* gold counted as 0) over every enemy that was ever part of the battle.
C7_RewardsSumEveryEnemy ==
  phase = "victory" /\ battleResult # NullResult =>
    /\ battleResult.rewards # <<>>
    /\ battleResult.rewards[1].exp = SumSeq([i \in 1..Len(EverEnemies) |-> EverEnemies[i].exp])
    /\ battleResult.rewards[1].gold = SumSeq([i \in 1..Len(EverEnemies) |-> Gold(EverEnemies[i])])

SpeedIn(e, id) == (CHOOSE l \in e.living : l[1] = id)[2]

\* the queue an "order" event shows holds the living combatants, each once, by
\* falling initiative, each initiative being the Speed plus a variance
OrderIsRight(e) ==
  LET q == e.queue
  IN /\ e.index = 0
     /\ Len(q) = Cardinality(e.living)
     /\ {q[i].combatantId : i \in 1..Len(q)} = {l[1] : l \in e.living}
     /\ \A i \in 1..Len(q) : q[i].combatantId \notin e.dead
     /\ \A i \in 1..Len(q) :
          /\ q[i].initiative.d = 1
          /\ q[i].initiative.n - SpeedIn(e, q[i].combatantId) \in 0..(VarianceSpan - 1)
     /\ \A i, j \in 1..Len(q) :
          /\ i < j => q[i].initiative.n >= q[j].initiative.n
          /\ SpeedIn(e, q[i].combatantId) >= SpeedIn(e, q[j].combatantId) + VarianceSpan
               => i < j

\* C10: each time the turn order is recomputed (at start() and when the queue is
\* exhausted, with the index back at 0) the queue holds every living combatant exactly
\* once and no dead one, sorted by initiative = Speed + a variance in 0..9, highest
\* first; so a combatant whose Speed is at least 10 higher than another's comes
\* before it.
C10_TurnOrder ==
  \A k \in 1..Len(trace) : trace[k].ev = "order" => OrderIsRight(trace[k])

\* a new round has been ordered with a combatant dead and two alive
C10_RoundWithoutTheDead ==
  \E k \in 1..Len(trace) :
    /\ trace[k].ev = "order"
    /\ trace[k].dead # {}
    /\ Cardinality(trace[k].living) >= 2
    /\ turnNumber >= 2

----------------------------------------------------------------------------
(* getSnapshot and a client that writes to what it returns *)

\* what a later getSnapshot() returns
EngineSnapshot == getSnapshot(State)

Mutation(part, field) == [part |-> part, field |-> field]

\* the writes of the client, each to the first object of its kind in the snapshot
Mutations(snap) ==
  {Mutation("battleLog", "push")}
    \cup (IF snap.combatants = <<>> THEN {}
          ELSE {Mutation("combatant", "currentHp"), Mutation("combatant", "isAlive")})
    \cup (IF snap.turnQueue = <<>> THEN {} ELSE {Mutation("turnQueueEntry", "initiative")})
    \cup (IF snap.dialogQueue = <<>> THEN {} ELSE {Mutation("dialogEntry", "text")})
    \cup (IF snap.battleResult = NullResult THEN {} ELSE {Mutation("battleResult", "victory")})

\* the write m applied to the objects of r, a snapshot or the engine
ApplyMutation(r, m) ==
  CASE m.part = "battleLog" -> [r EXCEPT !.battleLog = @ + 1]
    [] m.part = "combatant" /\ m.field = "currentHp" ->
         [r EXCEPT !.combatants[1].currentHp = IF @ = 0 THEN 1 ELSE 0]
    [] m.part = "combatant" /\ m.field = "isAlive" ->
         [r EXCEPT !.combatants[1].isAlive = ~@]
    [] m.part = "turnQueueEntry" ->
         [r EXCEPT !.turnQueue[1].initiative = IF @ = Num(0) THEN Num(1) ELSE Num(0)]
    [] m.part = "dialogEntry" ->
         [r EXCEPT !.dialogQueue[1].text = IF @ = "edited" THEN "q" ELSE "edited"]
    [] m.part = "battleResult" -> [r EXCEPT !.battleResult.victory = ~@]
    [] OTHER -> r

GetSnapshot ==
  /\ Started
  /\ snapshot = NoSnapshot
  /\ snapshot' = EngineSnapshot
  /\ lastOp' = "getSnapshot"
  /\ UNCHANGED <<machineVars, trace, emitted, overflow, scene, resultWrites, dialogsLeft, resume, listeners, notified, parser, observed>>

\* the client writes through the snapshot it has just been given; the engine sees
\* the write when the written object is one the snapshot shares with it
MutateSnapshot ==
  /\ lastOp = "getSnapshot"
  /\ \E m \in Mutations(snapshot) :
       LET e == IF m.part \in snapshot.shared THEN ApplyMutation(State, m) ELSE State
       IN /\ snapshot' = ApplyMutation(snapshot, m)
          /\ combatants' = e.combatants
          /\ turnQueue' = e.turnQueue
          /\ dialogQueue' = e.dialogQueue
          /\ battleResult' = e.battleResult
          /\ battleLog' = e.battleLog
  /\ lastOp' = "mutate"
  /\ UNCHANGED <<phase, turnNumber, currentTurnIndex, pendingAction, previousPhase,
                 enemyDefinitions, triggerEngine, trace, emitted, overflow, scene,
                 resultWrites, dialogsLeft, resume, listeners, notified, parser, observed>>

\* the battle runs until the client takes its snapshot
Battle == snapshot = NoSnapshot /\ Next

NextSnapshot ==
  \/ Battle
  \/ GetSnapshot
  \/ MutateSnapshot

SpecSnapshot == Init /\ [][NextSnapshot]_vars

\* C3: getSnapshot() returns a defensive copy: a write to anything reachable from a
\* returned snapshot (a push to battleLog, currentHp or isAlive of a combatant, a
\* turnQueue entry, a dialog entry, battleResult) changes neither the engine's state
\* nor what a later getSnapshot() returns.
C3_SnapshotIsDefensiveCopy ==
  [][lastOp' = "mutate" => (UNCHANGED machineVars /\ EngineSnapshot' = EngineSnapshot)]_vars


----------------------------------------------------------------------------
(* A BattleTriggerEngine on its own: setTriggers, then evaluate calls *)

TriggerIds == {"", "x"}

TriggerConditions == {"1", "turn >= 2", "1 / 0", "boss.hp < 1", "turn >="}

TriggerLimits == {NoNum} \cup (0..2)

SomeTriggers ==
  { Trigger(id, condition, once, maxFires, DialogAction("t", <<>>)) :
      id \in TriggerIds, condition \in TriggerConditions,
      once \in BOOLEAN, maxFires \in TriggerLimits }

TriggerLists == {<<t>> : t \in SomeTriggers} \cup {<<t, u>> : t \in SomeTriggers, u \in SomeTriggers}

EngineFrame ==
  UNCHANGED <<phase, turnNumber, turnQueue, currentTurnIndex, combatants, pendingAction,
              battleLog, dialogQueue, battleResult, previousPhase, enemyDefinitions,
              emitted, overflow, scene, snapshot, resultWrites, dialogsLeft, resume, listeners, notified, parser, observed>>

SetTriggers ==
  /\ triggerEngine.triggers = <<>>
  /\ \E triggers \in TriggerLists : triggerEngine' = setTriggers(triggerEngine, triggers)
  /\ trace' = <<>>
  /\ lastOp' = "setTriggers"
  /\ EngineFrame

\* evaluate(snapshot) for a snapshot of the given turn with no combatants in it
Evaluate ==
  /\ triggerEngine.triggers # <<>>
  /\ \A i \in 1..Len(triggerEngine.fires) : triggerEngine.fires[i] < MaxEvals
  /\ \E turn \in 1..MaxTurn :
       /\ triggerEngine' = evaluate(triggerEngine, turn, <<>>).engine
       /\ trace' = <<[ev |-> "evaluate", turn |-> turn]>>
  /\ lastOp' = "evaluate"
  /\ EngineFrame

NextTriggers ==
  \/ SetTriggers
  \/ Evaluate

SpecTriggers == Init /\ [][NextTriggers]_vars

Unlimited(trigger) == ~trigger.once /\ trigger.maxFires = NoNum

FiresWithinLimits ==
  \A i \in 1..Len(triggerEngine.triggers) :
    /\ triggerEngine.triggers[i].once => triggerEngine.fires[i] <= 1
    /\ triggerEngine.triggers[i].maxFires # NoNum =>
         triggerEngine.fires[i] <= triggerEngine.triggers[i].maxFires

\* the condition evaluates, without throwing, to a truthy number
TruthyCondition(condition, turn) ==
  compute(condition, turn, <<>>) \notin {Throws, 0}

UnlimitedFires ==
  lastOp' = "evaluate" =>
    \A i \in 1..Len(triggerEngine.triggers) :
      Unlimited(triggerEngine.triggers[i]) =>
        triggerEngine'.fires[i] = triggerEngine.fires[i]
          + Bool(TruthyCondition(triggerEngine.triggers[i].condition, trace'[1].turn))

\* C8: after setTriggers, over any sequence of evaluate calls, a trigger declared
\* once:true has fired at most once and a trigger with maxFires at most maxFires
\* times; a trigger with neither limit fires at every evaluation at which its
\* condition is truthy.
C8_FireLimits == []FiresWithinLimits /\ [][UnlimitedFires]_vars

\* a once trigger has fired and has been evaluated again with its condition true
C8_OnceFiredThenHeld ==
  \E i, j \in 1..Len(triggerEngine.triggers) :
    /\ triggerEngine.triggers[i].once /\ triggerEngine.triggers[i].condition = "1"
    /\ triggerEngine.triggers[i].maxFires = NoNum
    /\ triggerEngine.fires[i] = 1
    /\ Unlimited(triggerEngine.triggers[j]) /\ triggerEngine.triggers[j].condition = "1"
    /\ triggerEngine.fires[j] = 2


----------------------------------------------------------------------------
(* ActionExecutor.executeSkill called on its own *)

SkillTypes == {"physical", "healing", "buff", "debuff", "defense", "special"}

SkillCosts == {NoNum} \cup (0..2)

SkillInputs ==
  { Skill("s", type, mpCost, hpCost, 100, "single",
          Effect("Attack", "flat", 1, 2), Effect("Defense", "flat", 1, 2)) :
      type \in SkillTypes, mpCost \in 0..2, hpCost \in SkillCosts }

\* the actor with the given HP and MP left
Actor(hp, mp) ==
  [createCombatant(Player, TRUE) EXCEPT !.currentHp = hp, !.currentMp = mp,
                                        !.isAlive = hp > 0]

TargetLists == {<<>>, <<"a">>, <<"hero">>, <<"hero", "a">>}

InitSkill ==
  /\ \E skill \in SkillInputs, targets \in TargetLists :
       scene = [enemies |-> <<>>, triggers |-> <<>>, skill |-> skill, targets |-> targets]
  /\ \E hp \in 0..Player.baseStats.MaxHP, mp \in 0..Player.baseStats.MaxMP :
       combatants = <<Actor(hp, mp), createCombatant(GameEnemies[1], FALSE)>>
  /\ phase = "start"
  /\ turnNumber = 0
  /\ turnQueue = <<>>
  /\ currentTurnIndex = 0
  /\ pendingAction = NullAction
  /\ battleLog = 0
  /\ dialogQueue = <<>>
  /\ battleResult = NullResult
  /\ previousPhase = "start"
  /\ enemyDefinitions = <<>>
  /\ triggerEngine = NewTriggerEngine
  /\ trace = <<>>
  /\ emitted = FALSE
  /\ listeners = {}
  /\ notified = {}
  /\ parser = [tokens |-> <<>>, pos |-> 0]
  /\ observed = NoObservations
  /\ overflow = FALSE
  /\ lastOp = "new"
  /\ snapshot = NoSnapshot
  /\ resultWrites = 0
  /\ dialogsLeft = 0
  /\ resume = ""

ExecuteSkill ==
  /\ lastOp = "new"
  /\ \E r \in executeSkill(combatants, "hero", scene.skill, scene.targets) :
       /\ combatants' = r.cs
       /\ trace' = <<[ev |-> "result", success |-> r.success, effects |-> r.effects,
                      killedTargets |-> r.killedTargets]>>
  /\ lastOp' = "executeSkill"
  /\ UNCHANGED <<phase, turnNumber, turnQueue, currentTurnIndex, pendingAction, battleLog,
                 dialogQueue, battleResult, previousPhase, enemyDefinitions, triggerEngine,
                 emitted, overflow, scene, snapshot, resultWrites, dialogsLeft, resume, listeners, notified, parser, observed>>

NextSkill == ExecuteSkill

SpecSkill == InitSkill /\ [][NextSkill]_vars

\* a skill has an HP cost when it declares one that is not 0
HpCostOf(skill) == IF Truthy(skill.hpCost) THEN skill.hpCost ELSE 0

CannotPay(actor, skill) ==
  \/ actor.currentMp < skill.mpCost
  \/ HpCostOf(skill) # 0 /\ actor.currentHp <= skill.hpCost

\* the skill's effects do not reach the actor's HP
HpUntouched(skill, targets) ==
  skill.type \in {"buff", "debuff", "defense"} \/ \A i \in 1..Len(targets) : targets[i] # "hero"

SkillIsPaidOrRefused ==
  lastOp' = "executeSkill" =>
    LET actor == Get(combatants, "hero")
        after == Get(combatants', "hero")
        result == trace'[1]
    IN IF CannotPay(actor, scene.skill)
       THEN /\ ~result.success
            /\ result.effects = <<>>
            /\ result.killedTargets = <<>>
            /\ combatants' = combatants
       ELSE /\ result.success
            /\ after.currentMp = actor.currentMp - scene.skill.mpCost
            /\ HpUntouched(scene.skill, scene.targets) =>
                 after.currentHp = actor.currentHp - HpCostOf(scene.skill)

\* C9: executeSkill returns success:false with no effects and no killed targets and
\* changes no field of the actor or of any target whenever actor.currentMp <
\* skill.mpCost or the skill has an HP cost with actor.currentHp <= hpCost; in every
\* other case the MP cost and the HP cost are each deducted exactly once.
C9_SkillCosts == [][SkillIsPaidOrRefused]_vars

\* a skill whose MP cost is covered has been refused for its HP cost
C9_RefusedForHp ==
  /\ lastOp = "executeSkill"
  /\ ~trace[1].success
  /\ HpCostOf(scene.skill) >= 1
  /\ scene.skill.mpCost <= Get(combatants, "hero").currentMp
  /\ scene.targets # <<>>


----------------------------------------------------------------------------
(* The combatants initialize creates *)

\* C11: for any player and any list of enemy definitions (repeated ids, ids that look
\* like a suffixed id such as 'a_1') initialize creates exactly 1 + |enemies|
\* combatants whose ids are pairwise distinct.
C11_InitializeDistinctIds ==
  phase = "start" /\ combatants # <<>> =>
    /\ Len(combatants) = 1 + Len(scene.enemies)
    /\ \A i, j \in 1..Len(combatants) : combatants[i].id = combatants[j].id => i = j


----------------------------------------------------------------------------
(* Fleeing *)

\* the step is a selectAction of a flee in phase action_select
Flees == phase = "action_select" /\ lastOp' = "command" /\ trace' # <<>> /\ trace'[1].ev = "flee"

\* the positions after the current one in the turn queue that hold a living combatant
LivingAhead ==
  {i \in (currentTurnIndex + 2)..Len(turnQueue) :
     /\ Has(combatants, turnQueue[i].combatantId)
     /\ Get(combatants, turnQueue[i].combatantId).isAlive}

\* the failed flee clears pendingAction, changes no combatant by itself, ends the
\* turn and gives the turn to the next living combatant of the queue, or to the first
\* of the next round when the queue holds none
FleeFails ==
  /\ trace'[1].pendingAction = NullAction
  /\ trace'[1].combatants = combatants
  /\ Len(trace') >= 2 /\ trace'[2].ev = "turn_end"
  /\ (\E c \in Range(combatants) : c.isAlive) =>
       \E k \in 3..Len(trace') :
         /\ trace'[k].ev = "turn"
         /\ \A j \in 3..(k - 1) : trace'[j].ev = "order"
         /\ IF LivingAhead # {}
            THEN /\ k = 3
                 /\ trace'[k].id = turnQueue[CHOOSE i \in LivingAhead :
                                               \A j \in LivingAhead : i <= j].combatantId
            ELSE /\ k = 4
                 /\ trace'[k].id = trace'[3].queue[1].combatantId

\* what the successful flee leaves alone besides the phase, the log and pendingAction
FleeFrame ==
  UNCHANGED <<turnNumber, turnQueue, currentTurnIndex, combatants, dialogQueue,
              battleResult, previousPhase, enemyDefinitions, triggerEngine>>

FleeOutcome ==
  Flees =>
    IF trace'[1].success
    THEN /\ phase' = "fled"
         /\ Len(trace') = 1
         /\ FleeFrame
         /\ pendingAction'.type = "flee"
         /\ battleLog' = Min2(battleLog + 1, MaxLog)
    ELSE FleeFails

FleeOutcomeNothingElse ==
  Flees =>
    IF trace'[1].success
    THEN /\ phase' = "fled"
         /\ Len(trace') = 1
         /\ FleeFrame
         /\ pendingAction' = pendingAction
         /\ battleLog' = battleLog
    ELSE FleeFails

----------------------------------------------------------------------------
(* Whose turn rests in the selection phases *)

IsEnemyId(id) == Has(combatants, id) /\ ~Get(combatants, id).isPlayer

\* an enemy's turn goes on to the AI's choice and its execution, with no selection
EnemyTurnsRunThrough(tr) ==
  \A i \in 1..Len(tr) :
    /\ tr[i].ev = "select" => ~IsEnemyId(tr[i].id)
    /\ tr[i].ev = "turn" /\ IsEnemyId(tr[i].id) =>
         /\ i < Len(tr)
         /\ tr[i + 1].ev \in {"ai", "triggerDialog"}
         /\ \E j \in (i + 1)..Len(tr) : tr[j].ev = "ai" /\ tr[j].id = tr[i].id

\* C13: whenever processing stops in phase action_select or target_select, the
\* combatant at currentTurnIndex of the turn queue is a living player; an enemy's
\* turn goes from turn_start directly to the execution of an AI-chosen action.
C13_SelectionIsThePlayers ==
  /\ phase \in {"action_select", "target_select"} =>
       LET current == getCurrentCombatant(State)
       IN current # <<>> /\ current[1].isPlayer /\ current[1].isAlive
  /\ EnemyTurnsRunThrough(trace)


----------------------------------------------------------------------------
(* Dialogs with choices *)

HeadHasChoices == dialogQueue # <<>> /\ HasChoices(dialogQueue[1])

HeadChoiceIds == {dialogQueue[1].choices[i].id : i \in 1..Len(dialogQueue[1].choices)}

\* dismissDialog and a selectDialogChoice of an unknown id leave the machine as it is
ChoiceDialogHolds ==
  HeadHasChoices =>
    /\ dismissDialog(State) = State
    /\ \A choiceId \in ChoiceIds \ HeadChoiceIds : selectDialogChoice(State, choiceId) = {State}
    /\ \A choiceId \in HeadChoiceIds :
         \A s \in selectDialogChoice(State, choiceId) :
           Len(s.dialogQueue) = Len(dialogQueue) - 1

\* the step keeps the queued dialogs, in their order, at the head of the queue
QueueKept ==
  /\ Len(dialogQueue') >= Len(dialogQueue)
  /\ SubSeq(dialogQueue', 1, Len(dialogQueue)) = dialogQueue

\* the step is a selectDialogChoice of one of the head dialog's choices
Chosen == trace' # <<>> /\ trace'[1].ev = "choice" /\ trace'[1].id \in HeadChoiceIds

\* C14: while the dialog at the head of the queue has a choice, dismissDialog changes
\* nothing (phase, dialog queue, previousPhase, combatants); only selectDialogChoice
\* with the id of one of its choices removes that dialog, and selectDialogChoice with
\* an unknown id changes nothing.
C14_ChoicesMustBeSelected ==
  /\ []ChoiceDialogHolds
  /\ [][HeadHasChoices /\ ~QueueKept =>
          /\ Chosen
          /\ Len(dialogQueue') >= Len(dialogQueue) - 1
          /\ SubSeq(dialogQueue', 1, Len(dialogQueue) - 1) = Tail(dialogQueue)]_vars

\* a dialog with choices has been answered while another dialog waited behind it
C14_ChoiceTaken ==
  /\ trace # <<>> /\ trace[1].ev = "choice"
  /\ dialogQueue # <<>>


----------------------------------------------------------------------------
(* A ModifierStack used on its own: the stack is the modifiers of the one  *)
(* combatant, and the trace lists the calls made, each with the stack it   *)
(* left behind.                                                            *)

ModifierDefs ==
  { ModifierDefinition("guard", <<ModifierEffect("Defense", "flat", 2)>>, 2, FALSE, NoNum),
    ModifierDefinition("rage", <<ModifierEffect("Attack", "percent", 16),
                                 ModifierEffect("Defense", "flat", -1)>>, NoNum, TRUE, 3),
    ModifierDefinition("haste", <<ModifierEffect("Speed", "flat", 1),
                                  ModifierEffect("Attack", "flat", 1)>>, 1, TRUE, NoNum) }

ModifierIds == {d.id : d \in ModifierDefs}

DefOf(id) == CHOOSE d \in ModifierDefs : d.id = id

Modifiers == combatants[1].modifiers

InitModifiers ==
  /\ scene = [enemies |-> <<>>, triggers |-> <<>>]
  /\ combatants = <<createCombatant(Player, TRUE)>>
  /\ phase = "start"
  /\ turnNumber = 0
  /\ turnQueue = <<>>
  /\ currentTurnIndex = 0
  /\ pendingAction = NullAction
  /\ battleLog = 0
  /\ dialogQueue = <<>>
  /\ battleResult = NullResult
  /\ previousPhase = "start"
  /\ enemyDefinitions = <<>>
  /\ triggerEngine = NewTriggerEngine
  /\ trace = <<>>
  /\ emitted = FALSE
  /\ listeners = {}
  /\ notified = {}
  /\ parser = [tokens |-> <<>>, pos |-> 0]
  /\ observed = NoObservations
  /\ overflow = FALSE
  /\ lastOp = "new"
  /\ snapshot = NoSnapshot
  /\ resultWrites = 0
  /\ dialogsLeft = 0
  /\ resume = ""

\* a call on the stack: it leaves the stack mods and the event e in the trace
StackCall(name, mods, e) ==
  /\ Len(trace) < MaxOps
  /\ combatants' = [combatants EXCEPT ![1].modifiers = mods]
  /\ trace' = Append(trace, e)
  /\ lastOp' = name
  /\ UNCHANGED <<phase, turnNumber, turnQueue, currentTurnIndex, pendingAction, battleLog,
                 dialogQueue, battleResult, previousPhase, enemyDefinitions, triggerEngine,
                 emitted, overflow, scene, snapshot, resultWrites, dialogsLeft, resume, listeners, notified, parser, observed>>

AddModifier ==
  \E definition \in ModifierDefs :
    LET mods == addModifier(Modifiers, definition, "buff")
    IN StackCall("addModifier", mods, [ev |-> "add", id |-> definition.id, mods |-> mods])

RemoveStack ==
  \E modifierId \in ModifierIds :
    LET mods == removeStack(Modifiers, modifierId)
    IN StackCall("removeStack", mods, [ev |-> "removeStack", id |-> modifierId, mods |-> mods])

TickDuration ==
  LET r == tickDuration(Modifiers)
  IN StackCall("tickDuration", r.mods, [ev |-> "tick", expired |-> r.expired, mods |-> r.mods])

NextModifiers ==
  \/ AddModifier
  \/ RemoveStack
  \/ TickDuration

SpecModifiers == InitModifiers /\ [][NextModifiers]_vars


\* the modifier is active after the k-th call of the trace
ActiveAfter(k, id) == k >= 1 /\ HasModifier(trace[k].mods, id)

StateAfter(k, id) == trace[k].mods[ModIdx(trace[k].mods, id)]

\* the i-th call adds a modifier that was not active
Created(i, id) == trace[i].ev = "add" /\ trace[i].id = id /\ ~ActiveAfter(i - 1, id)

TicksIn(i, j) == Cardinality({k \in (i + 1)..j : trace[k].ev = "tick"})

\* how often the k-th call, a tick, reports the modifier as expired
Reported(k, id) ==
  IF trace[k].ev = "tick"
  THEN Cardinality({n \in 1..Len(trace[k].expired) : trace[k].expired[n] = id})
  ELSE 0

\* no call after the i-th up to the j-th names the modifier
Untouched(i, j, id) ==
  \A k \in (i + 1)..j : trace[k].ev \in {"add", "removeStack"} => trace[k].id # id

\* C15: a modifier added with duration d >= 1 is active after each of the first d - 1
\* tickDuration calls and removed by the d-th, whose expired list holds its id exactly
\* once; a modifier without a duration is never removed or reported by tickDuration.
C15_ExpiresAtItsTick ==
  \A id \in ModifierIds : \A i \in 1..Len(trace) : \A j \in i..Len(trace) :
    Created(i, id) /\ Untouched(i, j, id) =>
      LET d == DefOf(id).duration
          t == TicksIn(i, j)
      IN IF d = NoNum
         THEN ActiveAfter(j, id) /\ Reported(j, id) = 0
         ELSE /\ t < d => ActiveAfter(j, id) /\ Reported(j, id) = 0
                           /\ StateAfter(j, id).remainingDuration = d - t
              /\ t >= d => ~ActiveAfter(j, id)
              /\ t = d /\ trace[j].ev = "tick" => Reported(j, id) = 1
              /\ t > d => Reported(j, id) = 0

\* a modifier of duration 2 has survived one tick and expired at the second
C15_ExpiredAtSecondTick ==
  \E i \in 1..Len(trace) :
    /\ Created(i, "guard")
    /\ Untouched(i, Len(trace), "guard")
    /\ TicksIn(i, Len(trace)) = 2
    /\ trace[Len(trace)].ev = "tick"
    /\ Reported(Len(trace), "guard") = 1


\* from the i-th call, which creates the modifier, to the j-th it has stayed active
\* and no stack of it was removed
Stacking(i, j, id) ==
  /\ Created(i, id)
  /\ \A k \in i..j : ActiveAfter(k, id)
  /\ \A k \in i..j : ~(trace[k].ev = "removeStack" /\ trace[k].id = id)

AddsIn(i, j, id) == Cardinality({k \in i..j : trace[k].ev = "add" /\ trace[k].id = id})

StacksWithinLimits ==
  \A n \in 1..Len(Modifiers) :
    /\ Modifiers[n].currentStacks >= 1
    /\ Modifiers[n].definition.maxStacks # NoNum =>
         Modifiers[n].currentStacks <= Modifiers[n].definition.maxStacks

\* C16: for a stackable modifier with maxStacks = m, after n >= 1 addModifier calls
\* with the same id and no removal or expiry in between the stack count is min(n, m);
\* and in every state reached through addModifier, removeStack and tickDuration each
\* active modifier's stack count is at least 1 and at most its maxStacks.
C16_StackCount ==
  /\ StacksWithinLimits
  /\ \A id \in ModifierIds : \A i \in 1..Len(trace) : \A j \in i..Len(trace) :
       DefOf(id).stackable /\ Stacking(i, j, id) =>
         StateAfter(j, id).currentStacks =
           IF DefOf(id).maxStacks = NoNum THEN AddsIn(i, j, id)
           ELSE Min2(AddsIn(i, j, id), DefOf(id).maxStacks)

\* a modifier with maxStacks 3 has been added four times
C16_FourthStackRefused ==
  \E i \in 1..Len(trace) :
    /\ Stacking(i, Len(trace), "rage")
    /\ AddsIn(i, Len(trace), "rage") = 4


\* the step adds again a modifier that is active and whose definition is not stackable
ReAddsUnstackable ==
  /\ lastOp' = "addModifier"
  /\ HasModifier(Modifiers, trace'[Len(trace')].id)
  /\ ~DefOf(trace'[Len(trace')].id).stackable

NoStackRemoved(i, j, id) ==
  \A k \in (i + 1)..j : ~(trace[k].ev = "removeStack" /\ trace[k].id = id)

\* whatever re-adds follow its creation, the modifier keeps its entry but for the
\* turns ticked off, and expires at the tick its first application set
FirstApplicationWins ==
  \A id \in ModifierIds : \A i \in 1..Len(trace) : \A j \in i..Len(trace) :
    /\ ~DefOf(id).stackable /\ DefOf(id).duration # NoNum
    /\ Created(i, id) /\ NoStackRemoved(i, j, id)
    /\ \A k \in i..(j - 1) : ActiveAfter(k, id)
    => LET d == DefOf(id).duration
           t == TicksIn(i, j)
       IN /\ t < d => /\ ActiveAfter(j, id)
                      /\ StateAfter(j, id) =
                           [StateAfter(i, id) EXCEPT !.remainingDuration = d - t]
                      /\ StateAfter(j, id).currentStacks = 1
          /\ t >= d => ~ActiveAfter(j, id) /\ trace[j].ev = "tick" /\ Reported(j, id) = 1

\* C17: re-adding a modifier id that is active and whose definition is not stackable
\* is a no-op: the stack count stays 1 and the remaining duration, source type and
\* effects of the entry are unchanged, so the modifier still expires at the tick
\* determined by its first application.
C17_ReAddIsNoOp ==
  /\ [][ReAddsUnstackable => Modifiers' = Modifiers]_vars
  /\ []FirstApplicationWins

\* a modifier of duration 2 was added, ticked, added again and expired at the next tick
C17_ReAddedThenExpired ==
  \E i \in 1..Len(trace) :
    /\ Created(i, "guard")
    /\ Len(trace) = i + 3
    /\ trace[i + 1].ev = "tick"
    /\ trace[i + 2].ev = "add" /\ trace[i + 2].id = "guard"
    /\ trace[i + 3].ev = "tick" /\ Reported(i + 3, "guard") = 1


----------------------------------------------------------------------------
(* applyToStats on the stand-alone stack: the call is recorded with the    *)
(* stat block it was given, that block and the stack after the call, and   *)
(* the block it returned.                                                  *)

StatBlocks == {Player.baseStats, Stats(10, 30, 5, 25, 4)}

ApplyToStats ==
  \E baseStats \in StatBlocks :
    LET result == applyToStats(Modifiers, baseStats)
    IN StackCall("applyToStats", Modifiers,
                 [ev |-> "apply", base |-> baseStats, input |-> baseStats,
                  before |-> Modifiers, mods |-> Modifiers, result |-> result])

NextApply ==
  \/ AddModifier
  \/ RemoveStack
  \/ TickDuration
  \/ ApplyToStats

SpecApply == InitModifiers /\ [][NextApply]_vars

\* the sum of value * stack count over the active effects of one kind on stat
TotalOn(mods, stat, valueType) ==
  SumSeq([i \in 1..Len(mods) |->
    SumSeq([j \in 1..Len(mods[i].definition.effects) |->
      LET effect == mods[i].definition.effects[j]
      IN IF effect.stat = stat /\ effect.valueType = valueType
         THEN effect.value * mods[i].currentStacks ELSE 0])])

\* the stacks that hold the modifiers of mods in another order of insertion
Reorderings(mods) ==
  {[i \in 1..Len(mods) |-> mods[f[i]]] :
     f \in {g \in [1..Len(mods) -> 1..Len(mods)] :
              \A i, j \in 1..Len(mods) : g[i] = g[j] => i = j}}

Applies(e) == e.ev = "apply"

FormulaHolds(e) ==
  \A stat \in DOMAIN e.base :
    e.result[stat] = ((e.base[stat] + TotalOn(e.before, stat, "flat"))
                        * (100 + TotalOn(e.before, stat, "percent"))) \div 100

OrderIndependent(e) ==
  \A mods \in Reorderings(e.before) : applyToStats(mods, e.base) = e.result

NothingChanged(e) == e.input = e.base /\ e.mods = e.before

\* C18: applyToStats returns floor((base + F) * (1 + P/100)) for every stat
\* of the block, F and P being the sums of value * stack count over the
\* active flat and percent effects on the stat; the result is the same for
\* every order of insertion, and the block and the stack are left as they were.
C18_ApplyToStats ==
  \A k \in 1..Len(trace) :
    Applies(trace[k]) =>
      FormulaHolds(trace[k]) /\ OrderIndependent(trace[k]) /\ NothingChanged(trace[k])

\* the two parts of C18 that hold whatever the product rounds to
C18_OrderAndFrame ==
  \A k \in 1..Len(trace) :
    Applies(trace[k]) => OrderIndependent(trace[k]) /\ NothingChanged(trace[k])

\* where the formula fails, the result is one below it, on a stat with a
\* percent bonus
C18_OffByOne ==
  \A k \in 1..Len(trace) :
    Applies(trace[k]) /\ ~FormulaHolds(trace[k]) =>
      \E stat \in DOMAIN trace[k].base :
        /\ TotalOn(trace[k].before, stat, "percent") # 0
        /\ trace[k].result[stat] + 1
             = ((trace[k].base[stat] + TotalOn(trace[k].before, stat, "flat"))
                  * (100 + TotalOn(trace[k].before, stat, "percent"))) \div 100


----------------------------------------------------------------------------
(* DamageCalculator and the damage formulas of StatEngine.  Numbers are    *)
(* the fractions n/d of above in lowest terms, with 1/0 and -1/0 for       *)
(* Infinity and -Infinity next to NaN (0/0); they are taken exactly, 0.1   *)
(* being 1/10, and zero has no sign.  On the stats, powers and rolls used  *)
(* below, the doubles of the code floor to the same integers.              *)

Infinity == [n |-> 1, d |-> 0]

IsNaN(x) == x.n = 0 /\ x.d = 0

Sign(n) == IF n > 0 THEN 1 ELSE IF n < 0 THEN -1 ELSE 0

MulNum(x, y) ==
  IF x.d * y.d = 0 THEN [n |-> Sign(x.n) * Sign(y.n), d |-> 0]
  ELSE Reduce(x.n * y.n, x.d * y.d)

\* 1 / y
Reciprocal(y) ==
  IF y.d = 0 THEN (IF y.n = 0 THEN NaN ELSE Num(0))
  ELSE IF y.n = 0 THEN Infinity
  ELSE [n |-> Sign(y.n) * y.d, d |-> Sign(y.n) * y.n]

DivNum(x, y) == MulNum(x, Reciprocal(y))

SubNum(x, y) ==
  IF x.d > 0 /\ y.d > 0 THEN Reduce(x.n * y.d - y.n * x.d, x.d * y.d)
  ELSE IF IsNaN(x) \/ IsNaN(y) THEN NaN
  ELSE IF x.d = 0 /\ y.d = 0 THEN (IF x.n = y.n THEN NaN ELSE x)
  ELSE IF x.d = 0 THEN x
  ELSE [n |-> 0 - y.n, d |-> 0]

\* x < y, false when either is NaN
LessNum(x, y) ==
  /\ ~IsNaN(x) /\ ~IsNaN(y)
  /\ IF x.d = 0 /\ y.d = 0 THEN x.n < y.n ELSE x.n * y.d < y.n * x.d

\* Math.max(x, y)
MaxNum(x, y) == IF IsNaN(x) \/ IsNaN(y) THEN NaN ELSE IF LessNum(x, y) THEN y ELSE x

\* Math.floor(x)
FloorNum(x) ==
  IF x.d = 0 THEN x
  ELSE IF x.n >= 0 THEN Num(x.n \div x.d)
  ELSE Num(0 - ((0 - x.n + x.d - 1) \div x.d))

\* x || fallback
OrElse(x, fallback) == IF IsNaN(x) \/ x.n = 0 THEN fallback ELSE x

\* the outcome of FormulaParser.compute when it throws
Thrown == [n |-> 0, d |-> -1]

\* resolveIdentifier: a variable the context does not hold is an error
Var(context, name) == IF name \in DOMAIN context THEN context[name] ELSE Thrown

\* applyBinaryOp on operands that were evaluated, left then right
FAdd(l, r) == IF l = Thrown \/ r = Thrown THEN Thrown ELSE AddNum(l, r)

FSub(l, r) == IF l = Thrown \/ r = Thrown THEN Thrown ELSE SubNum(l, r)

FMul(l, r) == IF l = Thrown \/ r = Thrown THEN Thrown ELSE MulNum(l, r)

FDiv(l, r) == IF l = Thrown \/ r = Thrown \/ r = Num(0) THEN Thrown ELSE DivNum(l, r)

\* the operands of % are integers here, the left one not negative
FMod(l, r) ==
  IF l = Thrown \/ r = Thrown \/ r = Num(0) THEN Thrown
  ELSE Num(l.n % (Sign(r.n) * r.n))

DefaultPhysicalDamage ==
  "Attack * SkillPower / 100 * (100 / (100 + EnemyDef)) * (1 + Variance * 0.1)"

DefaultMagicDamage ==
  "MagicPower * SkillPower / 100 * (100 / (100 + EnemyRes)) * (1 + Variance * 0.1)"

\* FormulaParser.compute(formula, context) for the formulas of the games below
computeFormula(formula, c) ==
  CASE formula = DefaultPhysicalDamage ->
         FMul(FMul(FDiv(FMul(Var(c, "Attack"), Var(c, "SkillPower")), Num(100)),
                   FDiv(Num(100), FAdd(Num(100), Var(c, "EnemyDef")))),
              FAdd(Num(1), FMul(Var(c, "Variance"), Reduce(1, 10))))
    [] formula = DefaultMagicDamage ->
         FMul(FMul(FDiv(FMul(Var(c, "MagicPower"), Var(c, "SkillPower")), Num(100)),
                   FDiv(Num(100), FAdd(Num(100), Var(c, "EnemyRes")))),
              FAdd(Num(1), FMul(Var(c, "Variance"), Reduce(1, 10))))
    [] formula = "Attack * (100 / (100 + EnemyDef))" ->
         FMul(Var(c, "Attack"), FDiv(Num(100), FAdd(Num(100), Var(c, "EnemyDef"))))
    [] formula = "MagicPower * (100 / (100 + EnemyRes))" ->
         FMul(Var(c, "MagicPower"), FDiv(Num(100), FAdd(Num(100), Var(c, "EnemyRes"))))
    [] formula = "CritRate" -> Var(c, "CritRate")
    [] formula = "Attack - EnemyDef" -> FSub(Var(c, "Attack"), Var(c, "EnemyDef"))
    [] formula = "Attack * 3 / 2 - EnemyRes" ->
         FSub(FDiv(FMul(Var(c, "Attack"), Num(3)), Num(2)), Var(c, "EnemyRes"))
    [] formula = "100" -> Num(100)
    [] formula = "Attack / EnemyDef" -> FDiv(Var(c, "Attack"), Var(c, "EnemyDef"))
    [] formula = "100 % EnemyDef" -> FMod(Num(100), Var(c, "EnemyDef"))
    [] formula = "Luck / 0" -> FDiv(Var(c, "Luck"), Num(0))
    [] formula = "Attack * 2 / Armor" ->
         FDiv(FMul(Var(c, "Attack"), Num(2)), Var(c, "Armor"))
    [] formula = "hit(Attack)" -> Thrown    \* Unknown function: hit
    [] formula = "Attack *" -> Thrown       \* parse: Unexpected token EOF

CombatFormulas(physicalDamage, magicDamage, criticalCheck) ==
  [physicalDamage |-> physicalDamage, magicDamage |-> magicDamage,
   criticalCheck |-> criticalCheck]

\* game.stats.combatFormulas: <<>> where the game declares none
Games ==
  { <<>>,
    <<CombatFormulas("Attack - EnemyDef", "Attack * 3 / 2 - EnemyRes", "100")>>,
    <<CombatFormulas("Attack / EnemyDef", "100 % EnemyDef", "Luck / 0")>>,
    <<CombatFormulas("Attack * 2 / Armor", "hit(Attack)", "Attack *")>> }

\* new DamageCalculator(game): this.formulas
DamageFormulas(game) ==
  IF game = <<>> THEN CombatFormulas(DefaultPhysicalDamage, DefaultMagicDamage, "CritRate")
  ELSE game[1]

\* statsConfig.combatFormulas ?? DEFAULT_COMBAT_FORMULAS
StatEngineFormulas(game) ==
  IF game = <<>>
  THEN CombatFormulas("Attack * (100 / (100 + EnemyDef))",
                      "MagicPower * (100 / (100 + EnemyRes))", "CritRate")
  ELSE game[1]

\* the stat blocks of this game hold Speed, MaxHP, MaxMP, Attack and Defense,
\* so every other entry takes the last value of its chain
buildContext(attacker, defender, skillPower, variance, randomValue) ==
  [Attack |-> Num(attacker.currentStats.Attack), MagicPower |-> Num(10),
   Strength |-> Num(10), Intelligence |-> Num(10), Dexterity |-> Num(10),
   Luck |-> Num(10), CritRate |-> Num(5), CritDamage |-> Num(150),
   Speed |-> Num(attacker.currentStats.Speed), Level |-> Num(attacker.level),
   EnemyDef |-> Num(defender.currentStats.Defense), EnemyRes |-> Num(10),
   EnemyDefense |-> Num(defender.currentStats.Defense), EnemyMagicResist |-> Num(10),
   SkillPower |-> skillPower, Variance |-> variance, IsCritical |-> Num(0),
   Random |-> randomValue]

checkCritical(formulas, context, critRoll) ==
  LET critRate == computeFormula(formulas.criticalCheck, context)
  IN IF critRate = Thrown THEN LessNum(critRoll, OrElse(context.CritRate, Num(5)))
     ELSE LessNum(critRoll, critRate)

\* the simple calculation taken when the formula fails
FallbackDamage(context, damageType, skillPower) ==
  LET attack == IF damageType = "physical" THEN context.Attack ELSE context.MagicPower
      defense == IF damageType = "physical" THEN context.EnemyDef ELSE context.EnemyRes
  IN DivNum(MulNum(MulNum(attack, DivNum(Num(100), AddNum(Num(100), defense))), skillPower),
            Num(100))

DamageResult(rawDamage, isCritical, context, damageType, skillPower) ==
  LET finalDamage == MaxNum(Num(1), FloorNum(rawDamage))
      baseAttack == IF damageType = "physical" THEN context.Attack ELSE context.MagicPower
  IN [damage |-> finalDamage, isCritical |-> isCritical, rawDamage |-> FloorNum(rawDamage),
      mitigatedBy |-> MaxNum(Num(0),
                             SubNum(FloorNum(DivNum(MulNum(baseAttack, skillPower), Num(100))),
                                    finalDamage))]

calculate_NoFallback(formulas, attacker, defender, damageType, skillPower, variance, critRoll) ==
  LET context == buildContext(attacker, defender, skillPower, variance, critRoll)
      isCritical == checkCritical(formulas, context, critRoll)
      formula == IF damageType = "physical" THEN formulas.physicalDamage
                 ELSE formulas.magicDamage
      computed == computeFormula(formula, context)
  IN IF computed = Thrown THEN Thrown
     ELSE DamageResult(IF isCritical
                       THEN MulNum(computed, DivNum(OrElse(context.CritDamage, Num(150)), Num(100)))
                       ELSE computed,
                       isCritical, context, damageType, skillPower)

calculate(formulas, attacker, defender, damageType, skillPower, variance, critRoll) ==
  LET context == buildContext(attacker, defender, skillPower, variance, critRoll)
      isCritical == checkCritical(formulas, context, critRoll)
      formula == IF damageType = "physical" THEN formulas.physicalDamage
                 ELSE formulas.magicDamage
      computed == computeFormula(formula, context)
      rawDamage == IF computed = Thrown THEN FallbackDamage(context, damageType, skillPower)
                   ELSE computed
  IN DamageResult(IF isCritical
                  THEN MulNum(rawDamage, DivNum(OrElse(context.CritDamage, Num(150)), Num(100)))
                  ELSE rawDamage,
                  isCritical, context, damageType, skillPower)

\* { ...attackerStats, EnemyDef: defenderStats.Defense ?? 0, EnemyRes: defenderStats.MagicResist ?? 0 }
StatContext(attackerStats, defenderStats) ==
  [name \in DOMAIN attackerStats \cup {"EnemyDef", "EnemyRes"} |->
     IF name = "EnemyDef" THEN Num(defenderStats.Defense)
     ELSE IF name = "EnemyRes" THEN Num(0)
     ELSE Num(attackerStats[name])]

\* the number returned, or Thrown when the formula throws to the caller
calculatePhysicalDamage(formulas, attackerStats, defenderStats) ==
  LET damage == computeFormula(formulas.physicalDamage, StatContext(attackerStats, defenderStats))
  IN IF damage = Thrown THEN Thrown ELSE MaxNum(Num(1), FloorNum(damage))

calculateMagicDamage(formulas, attackerStats, defenderStats) ==
  LET damage == computeFormula(formulas.magicDamage, StatContext(attackerStats, defenderStats))
  IN IF damage = Thrown THEN Thrown ELSE MaxNum(Num(1), FloorNum(damage))


\* a currentHp that is NaN
NaNHp == -3

\* the body of the loop of executeAttackSkill for a living target, given what
\* calculate returned: [target, value, killed]
AttackTarget(target, damageResult) ==
  LET finalDamage == IF target.isDefending
                     THEN FloorNum(MulNum(damageResult.damage, Reduce(1, 2)))
                     ELSE damageResult.damage
      hp == IF target.currentHp = NaNHp \/ IsNaN(finalDamage) THEN NaNHp
            ELSE IF finalDamage.d = 0 THEN 0
            ELSE Max2(0, target.currentHp - finalDamage.n)
      killed == hp # NaNHp /\ hp <= 0
  IN [target |-> [target EXCEPT !.currentHp = hp, !.isAlive = IF killed THEN FALSE ELSE @],
      value |-> finalDamage, killed |-> killed]

----------------------------------------------------------------------------
(* The damage calculations on their own: an attacker and a defender, one   *)
(* call in each behaviour, and in the trace the call with what it was      *)
(* given and what it returned.                                             *)

AttackValues == {-3, 0, 2, 40}

DefenseValues == {-100, 0, 100, 900}

\* the defender's HP; at 0 it is dead
HpValues == {0, 1, 3}

SkillPowers == {0, 100, 150}

\* Math.random() * 2 - 1 lies in [-1, 1)
Variances == {Num(-1), Num(0), Reduce(9, 10)}

\* Math.random() * 100 lies in [0, 100)
CritRolls == {Num(0), Num(5), Num(99)}

Fighter(id, atk, def, hp, isDefending, isPlayer) ==
  [createCombatant([id |-> id, baseStats |-> Stats(10, 3, 2, atk, def),
                    skills |-> <<"strike", "fire", "bite">>, level |-> 1], isPlayer)
     EXCEPT !.currentHp = hp, !.isAlive = hp > 0, !.isDefending = isDefending]

InitDamage ==
  /\ scene = [enemies |-> <<>>, triggers |-> <<>>]
  /\ \E atk \in AttackValues, def \in DefenseValues, hp \in HpValues, isDefending \in BOOLEAN :
       combatants = <<Fighter("hero", atk, 0, 3, FALSE, TRUE),
                      Fighter("a", 2, def, hp, isDefending, FALSE)>>
  /\ phase = "start"
  /\ turnNumber = 0
  /\ turnQueue = <<>>
  /\ currentTurnIndex = 0
  /\ pendingAction = NullAction
  /\ battleLog = 0
  /\ dialogQueue = <<>>
  /\ battleResult = NullResult
  /\ previousPhase = "start"
  /\ enemyDefinitions = <<>>
  /\ triggerEngine = NewTriggerEngine
  /\ trace = <<>>
  /\ emitted = FALSE
  /\ listeners = {}
  /\ notified = {}
  /\ parser = [tokens |-> <<>>, pos |-> 0]
  /\ observed = NoObservations
  /\ overflow = FALSE
  /\ lastOp = "new"
  /\ snapshot = NoSnapshot
  /\ resultWrites = 0
  /\ dialogsLeft = 0
  /\ resume = ""

Attacker == combatants[1]

Defender == combatants[2]

\* a call that leaves the combatants cs; e tells the call and its outcome
DamageCall(name, cs, e) ==
  /\ trace = <<>>
  /\ combatants' = cs
  /\ trace' = <<e>>
  /\ lastOp' = name
  /\ UNCHANGED <<phase, turnNumber, turnQueue, currentTurnIndex, pendingAction, battleLog,
                 dialogQueue, battleResult, previousPhase, enemyDefinitions, triggerEngine,
                 emitted, overflow, scene, snapshot, resultWrites, dialogsLeft, resume, listeners, notified, parser, observed>>

Calculate ==
  \E game \in Games, damageType \in {"physical", "magic"}, power \in SkillPowers,
     variance \in Variances, critRoll \in CritRolls :
    DamageCall("calculate", combatants,
               [ev |-> "calculate", game |-> game, damageType |-> damageType,
                skillPower |-> Num(power), variance |-> variance, critRoll |-> critRoll,
                result |-> calculate(DamageFormulas(game), Attacker, Defender, damageType,
                                     Num(power), variance, critRoll)])

CalculateStatDamage ==
  \E game \in Games, damageType \in {"physical", "magic"} :
    DamageCall("calculateStatDamage", combatants,
               [ev |-> "statDamage", game |-> game, damageType |-> damageType,
                result |-> IF damageType = "physical"
                           THEN calculatePhysicalDamage(StatEngineFormulas(game),
                                                        Attacker.currentStats,
                                                        Defender.currentStats)
                           ELSE calculateMagicDamage(StatEngineFormulas(game),
                                                     Attacker.currentStats,
                                                     Defender.currentStats)])

\* executeAttackSkill(actor, skill, [target], killedTargets)
ExecuteAttackSkill ==
  \E game \in Games, skillId \in {"strike", "fire", "bite"},
     variance \in Variances, critRoll \in CritRolls :
    LET skill == getSkillById(skillId)[1]
        damageType == IF skill.type = "magic" THEN "magic" ELSE "physical"
        skillPower == Num(IF skill.power = NoNum THEN 100 ELSE skill.power)
        damageResult == calculate(DamageFormulas(game), Attacker, Defender, damageType,
                                  skillPower, variance, critRoll)
        hit == AttackTarget(Defender, damageResult)
    IN IF ~Defender.isAlive
       THEN DamageCall("executeAttackSkill", combatants,
                       [ev |-> "attack", game |-> game, before |-> Defender,
                        after |-> Defender, returned |-> TRUE,
                        effects |-> <<>>, killedTargets |-> <<>>])
       ELSE IF damageResult = Thrown
       THEN DamageCall("executeAttackSkill", combatants,
                       [ev |-> "attack", game |-> game, before |-> Defender,
                        after |-> Defender, returned |-> FALSE])
       ELSE DamageCall("executeAttackSkill", <<Attacker, hit.target>>,
                       [ev |-> "attack", game |-> game, before |-> Defender,
                        after |-> hit.target, returned |-> TRUE,
                        damage |-> damageResult.damage,
                        effects |-> <<[targetId |-> Defender.id, type |-> "damage",
                                       value |-> hit.value,
                                       isCritical |-> damageResult.isCritical]>>,
                        killedTargets |-> IF hit.killed THEN <<Defender.id>> ELSE <<>>])

NextDamage ==
  \/ Calculate
  \/ CalculateStatDamage
  \/ ExecuteAttackSkill

SpecDamage == InitDamage /\ [][NextDamage]_vars

Last == trace[1]

IsInteger(x) == x.d = 1

ReturnsAtLeastOne(x) == IsInteger(x) /\ x.n >= 1

\* HP taken from the target by the last attack, where both are numbers
HpRemoved == Last.before.currentHp - Last.after.currentHp

Hits ==
  /\ trace # <<>> /\ Last.ev = "attack"
  /\ Last.before.isAlive /\ Last.before.currentHp # NaNHp /\ Last.returned

\* C19: the damage returned by DamageCalculator.calculate and by
\* StatEngine.calculatePhysicalDamage / calculateMagicDamage is an integer
\* of at least 1 for every stat combination, skill power, variance and crit
\* roll, and an attack takes at least 1 HP from a living target.
C19_DamageAtLeastOne ==
  trace # <<>> =>
    /\ Last.ev = "calculate" => ReturnsAtLeastOne(Last.result.damage)
    /\ Last.ev = "statDamage" /\ Last.result # Thrown => ReturnsAtLeastOne(Last.result)
    /\ Hits => Last.after.currentHp # NaNHp /\ HpRemoved >= 1

\* the returned damage alone, defence -100 apart
C19_FiniteDamage ==
  trace # <<>> /\ Defender.currentStats.Defense # -100 =>
    /\ Last.ev = "calculate" => ReturnsAtLeastOne(Last.result.damage)
    /\ Last.ev = "statDamage" /\ Last.result # Thrown => ReturnsAtLeastOne(Last.result)
    /\ Hits /\ ~Last.before.isDefending => HpRemoved >= 1

\* a defending target hit for 1 loses nothing
C19_DefendingLosesNothing ==
  /\ Hits /\ Last.before.isDefending
  /\ Last.damage = Num(1) /\ HpRemoved = 0


\* the context and the formulas of the last calculate call
LastFormulas == DamageFormulas(Last.game)

LastContext == buildContext(Attacker, Defender, Last.skillPower, Last.variance, Last.critRoll)

DamageFormulaFails ==
  computeFormula(IF Last.damageType = "physical" THEN LastFormulas.physicalDamage
                 ELSE LastFormulas.magicDamage, LastContext) = Thrown

CriticalFormulaFails == computeFormula(LastFormulas.criticalCheck, LastContext) = Thrown

\* attack * (100 / (100 + defense)) * skillPower / 100, times CritDamage / 100
\* on a critical hit, floored
FallbackRawDamage ==
  LET base == FallbackDamage(LastContext, Last.damageType, Last.skillPower)
  IN FloorNum(IF Last.result.isCritical THEN MulNum(base, Reduce(150, 100)) ELSE base)

\* C20: DamageCalculator.calculate never throws to its caller: when the
\* damage formula of the game or its critical-check formula fails, the
\* fallback formula is used and a damage result is returned, and an attack
\* on a living target completes with its effect.
C20_CalculateNeverThrows ==
  trace # <<>> =>
    /\ Last.ev = "calculate" =>
         /\ Last.result # Thrown
         /\ DOMAIN Last.result = {"damage", "isCritical", "rawDamage", "mitigatedBy"}
         /\ DamageFormulaFails =>
              /\ Last.result.rawDamage = FallbackRawDamage
              /\ Last.result.damage = MaxNum(Num(1), FallbackRawDamage)
         /\ CriticalFormulaFails => (Last.result.isCritical <=> LessNum(Last.critRoll, Num(5)))
    /\ Last.ev = "attack" =>
         /\ Last.returned
         /\ Last.before.isAlive => Len(Last.effects) = 1

\* an unknown variable in the damage formula and a syntax error in the
\* critical check: 40 * (100 / 200) * 100 / 100 = 20, critical for a roll of 0
C20_FallbackTaken ==
  /\ trace # <<>> /\ Last.ev = "calculate"
  /\ Last.game = <<CombatFormulas("Attack * 2 / Armor", "hit(Attack)", "Attack *")>>
  /\ Last.damageType = "physical" /\ Last.skillPower = Num(100) /\ Last.critRoll = Num(0)
  /\ Attacker.currentStats.Attack = 40 /\ Defender.currentStats.Defense = 100
  /\ DamageFormulaFails /\ CriticalFormulaFails
  /\ Last.result.isCritical /\ Last.result.damage = Num(30)


----------------------------------------------------------------------------
(* Conditions that throw, on the stand-alone trigger engine                *)

ThrowsAt(trigger, turn) == compute(trigger.condition, turn, <<>>) = Throws

\* the engine with every trigger whose condition throws at this turn given
\* the condition 0 instead
Quiet(engine, turn) ==
  [engine EXCEPT !.triggers =
     [i \in 1..Len(engine.triggers) |->
        IF ThrowsAt(engine.triggers[i], turn)
        THEN [engine.triggers[i] EXCEPT !.condition = "0"]
        ELSE engine.triggers[i]]]

ThrowingIsSkipped(turn) ==
  LET r == evaluate(triggerEngine, turn, <<>>)
      q == evaluate(Quiet(triggerEngine, turn), turn, <<>>)
  IN /\ r.results = q.results
     /\ r.engine.firedCounts = q.engine.firedCounts
     /\ r.engine.fires = q.engine.fires
     /\ \A i \in 1..Len(triggerEngine.triggers) :
          ThrowsAt(triggerEngine.triggers[i], turn) =>
            r.engine.fires[i] = triggerEngine.fires[i]

\* C21: a trigger whose condition throws (unknown variable, division by zero,
\* syntax error) does not make evaluate throw: it is skipped with its fire
\* count unchanged, and the other triggers of the list are evaluated and fire
\* in the same call as they do when it is a trigger that does not fire.
C21_ThrowingTriggerSkipped ==
  /\ \A turn \in 1..MaxTurn : ThrowingIsSkipped(turn)
  /\ lastOp = "evaluate" =>
       \A i \in 1..Len(triggerEngine.triggers) :
         (\A turn \in 1..MaxTurn : ThrowsAt(triggerEngine.triggers[i], turn)) =>
           triggerEngine.fires[i] = 0

\* a trigger with an unknown variable was skipped twice, and the trigger after
\* it fired both times
C21_FiredAfterThrowing ==
  /\ Len(triggerEngine.triggers) = 2
  /\ triggerEngine.triggers[1].condition = "boss.hp < 1"
  /\ triggerEngine.triggers[2].condition = "1"
  /\ Unlimited(triggerEngine.triggers[1]) /\ Unlimited(triggerEngine.triggers[2])
  /\ triggerEngine.fires = <<0, 2>>


----------------------------------------------------------------------------
(* The guard of a combatant                                                *)

\* the turn starts and executed actions of a trace, in their order
GuardPoints(tr) == SelectSeq(tr, LAMBDA e : e.ev \in {"turn", "execute"})

\* the executed action is a defend, or the defense skill of the game (it costs no MP)
Defends(e) ==
  \/ e.type = "defend"
  \/ /\ e.type = "skill"
     /\ getSkillById(e.skillId) # <<>>
     /\ getSkillById(e.skillId)[1].type = "defense"

\* the ids with isDefending set at the k-th point of the command, 0 being its start
GuardAt(k) == IF k = 0 THEN Defending(combatants) ELSE GuardPoints(trace')[k].defending

\* the combatant whose turn it is at the k-th point
RECURSIVE TurnAt(_)
TurnAt(k) ==
  IF k = 0 THEN (IF currentTurnIndex < Len(turnQueue)
                 THEN turnQueue[currentTurnIndex + 1].combatantId ELSE "")
  ELSE IF GuardPoints(trace')[k].ev = "turn" THEN GuardPoints(trace')[k].id
  ELSE TurnAt(k - 1)

\* isDefending changes at a turn start, where the flag of the combatant whose
\* turn starts is cleared, and at a defend, where the flag of the actor is set
GuardFollowsTurns ==
  ~UNCHANGED <<machineVars, trace>> =>
    LET points == GuardPoints(trace')
    IN /\ \A k \in 1..Len(points) :
            IF points[k].ev = "turn"
            THEN GuardAt(k) = GuardAt(k - 1) \ {points[k].id}
            ELSE IF Defends(points[k])
            THEN GuardAt(k) = GuardAt(k - 1) \cup {points[k].actor}
            ELSE GuardAt(k) = GuardAt(k - 1)
       /\ Defending(combatants') = GuardAt(Len(points))

\* a combatant defends in its own turn
DefendsInOwnTurn ==
  ~UNCHANGED <<machineVars, trace>> =>
    \A k \in 1..Len(GuardPoints(trace')) :
      GuardPoints(trace')[k].ev = "execute" /\ Defends(GuardPoints(trace')[k]) =>
        TurnAt(k) = GuardPoints(trace')[k].actor

\* C22: isDefending of a combatant is false from the start of each of its own
\* turns until it defends in that turn; a defend or defense skill made in its
\* turn stays through the turns of the others and is cleared only at the
\* start of its own next turn.
C22_GuardUntilOwnTurn == [][GuardFollowsTurns /\ DefendsInOwnTurn]_vars

\* the part of C22 about where the flag changes
C22_GuardChanges == [][GuardFollowsTurns]_vars

\* the hero defended, kept the guard through the turn of the enemy and lost
\* it when the next turn of the hero started
C22_GuardKeptThenCleared ==
  \E i, j, k \in 1..Len(trace) :
    /\ i < j /\ j < k
    /\ trace[i].ev = "execute" /\ trace[i].actor = "hero" /\ trace[i].type = "defend"
    /\ trace[j].ev = "execute" /\ trace[j].actor = "a" /\ "hero" \in trace[j].defending
    /\ trace[k].ev = "turn" /\ trace[k].id = "hero" /\ "hero" \notin trace[k].defending


----------------------------------------------------------------------------
(* cancelTargetSelection                                                   *)

\* C23: cancelTargetSelection in phase target_select clears pendingAction and
\* sets the phase to action_select, leaving turnNumber, currentTurnIndex, the
\* turn queue and every combatant as they were; in any other phase it changes
\* nothing.
C23_CancelKeepsTheTurn ==
  LET r == cancelTargetSelection(State)
  IN IF phase = "target_select"
     THEN /\ r.pendingAction = NullAction
          /\ r.phase = "action_select"
          /\ r.turnNumber = turnNumber
          /\ r.currentTurnIndex = currentTurnIndex
          /\ r.turnQueue = turnQueue
          /\ r.combatants = combatants
     ELSE r = State

\* a skill was chosen and its target selection cancelled: the hero is back in
\* action_select with its MP
C23_Cancelled ==
  /\ trace = <<[ev |-> "cancel"]>>
  /\ phase = "action_select" /\ pendingAction = NullAction
  /\ turnQueue[currentTurnIndex + 1].combatantId = "hero"
  /\ Get(combatants, "hero").currentMp = Get(combatants, "hero").maxMp


----------------------------------------------------------------------------
(* subscribe, emit: the listeners of the machine                           *)

Listeners == {"hud"}

\* subscribe(listener): the Set keeps one entry per function
Subscribe ==
  /\ \E listener \in Listeners : listeners' = listeners \cup {listener}
  /\ UNCHANGED <<machineVars, trace, emitted, overflow, scene, lastOp, snapshot,
                 resultWrites, dialogsLeft, resume, notified, parser, observed>>

\* the function subscribe returned, called by the client
Unsubscribe ==
  /\ \E listener \in listeners : listeners' = listeners \ {listener}
  /\ UNCHANGED <<machineVars, trace, emitted, overflow, scene, lastOp, snapshot,
                 resultWrites, dialogsLeft, resume, notified, parser, observed>>

NextObservers ==
  \/ Next
  \/ Subscribe
  \/ Unsubscribe

SpecObservers == Init /\ [][NextObservers]_vars

\* the step changed what getSnapshot() returns
VisibleChange == getSnapshot(State)' # getSnapshot(State)

\* the step is a command that called listeners
NewCalls == listeners' = listeners /\ notified' # notified

\* the step is a queueDialog that found a dialog showing
QueuedBehindDialog ==
  /\ phase = "dialog"
  /\ Len(dialogQueue') = Len(dialogQueue) + 1
  /\ SubSeq(dialogQueue', 1, Len(dialogQueue)) = dialogQueue
  /\ getSnapshot(State)' = [getSnapshot(State) EXCEPT !.dialogQueue = dialogQueue',
                              !.currentDialog = <<dialogQueue'[1]>>]

\* C24: whenever a command changes anything visible in getSnapshot(), every
\* subscribed listener is called at least once after the last change made by
\* the command, and no listener is called that is no longer subscribed.
C24_ListenersNotified ==
  [][/\ VisibleChange => notified' = listeners
     /\ NewCalls => notified' \subseteq listeners]_vars

\* the same, but for a queueDialog that finds a dialog showing and a command
\* whose chain of startTurn calls does not end
C24_NotifiedUnlessQueued ==
  [][/\ (VisibleChange /\ ~QueuedBehindDialog /\ ~overflow') => notified' = listeners
     /\ NewCalls => notified' \subseteq listeners]_vars

\* a dialog was queued behind the one showing and no listener was called
C24_QueuedUnseen ==
  /\ listeners # {}
  /\ phase = "dialog"
  /\ Len(dialogQueue) = 2
  /\ notified = {}
  /\ lastOp = "command"


----------------------------------------------------------------------------
(* Tokenizer.  A formula is the sequence of its characters; positions are  *)
(* 0-based as in the code, so the character at pos is formula[pos + 1].    *)
(* A call that throws yields [ok |-> FALSE, error |-> ...].                *)

Digits == {"0", "1", "2", "3", "4", "5", "6", "7", "8", "9"}

Letters ==
  {"a", "b", "c", "d", "e", "f", "g", "h", "i", "j", "k", "l", "m", "n", "o", "p", "q",
   "r", "s", "t", "u", "v", "w", "x", "y", "z", "A", "B", "C", "D", "E", "F", "G", "H",
   "I", "J", "K", "L", "M", "N", "O", "P", "Q", "R", "S", "T", "U", "V", "W", "X", "Y",
   "Z", "_"}

OPERATORS == {"+", "-", "*", "/", "%"}

TWO_CHAR_COMPARATORS == {<<"<", "=">>, <<">", "=">>, <<"=", "=">>, <<"!", "=">>}

TWO_CHAR_LOGIC == {<<"&", "&">>, <<"|", "|">>}

\* the string of a two-character operator
Text(twoChar) ==
  CASE twoChar = <<"<", "=">> -> "<="
    [] twoChar = <<">", "=">> -> ">="
    [] twoChar = <<"=", "=">> -> "=="
    [] twoChar = <<"!", "=">> -> "!="
    [] twoChar = <<"&", "&">> -> "&&"
    [] twoChar = <<"|", "|">> -> "||"

Token(type, value, position) == [type |-> type, value |-> value, position |-> position]

Throw(message) == [ok |-> FALSE, error |-> message]

DigitValue(c) ==
  CASE c = "0" -> 0 [] c = "1" -> 1 [] c = "2" -> 2 [] c = "3" -> 3 [] c = "4" -> 4
    [] c = "5" -> 5 [] c = "6" -> 6 [] c = "7" -> 7 [] c = "8" -> 8 [] c = "9" -> 9

\* the first position from pos on whose character is not in the class
RECURSIVE RunEnd(_, _, _)
RunEnd(formula, pos, class) ==
  IF pos < Len(formula) /\ formula[pos + 1] \in class
  THEN RunEnd(formula, pos + 1, class)
  ELSE pos

RECURSIVE Pow10(_)
Pow10(k) == IF k = 0 THEN 1 ELSE 10 * Pow10(k - 1)

RECURSIVE DigitsValue(_)
DigitsValue(ds) ==
  IF ds = <<>> THEN 0 ELSE 10 * DigitsValue(SubSeq(ds, 1, Len(ds) - 1)) + DigitValue(ds[Len(ds)])

\* parseFloat of a run of digits and dots: the digits up to a second dot count
parseFloat(numStr) ==
  LET whole == RunEnd(numStr, 0, Digits)
      frac  == IF whole < Len(numStr) THEN RunEnd(numStr, whole + 1, Digits) ELSE whole
      ds    == SubSeq(numStr, whole + 2, frac)
  IN Reduce(DigitsValue(SubSeq(numStr, 1, whole)) * Pow10(Len(ds)) + DigitsValue(ds),
            Pow10(Len(ds)))

RECURSIVE tokenizeFrom(_, _, _)
tokenizeFrom(formula, pos, tokens) ==
  IF pos >= Len(formula)
  THEN [ok |-> TRUE, tokens |-> Append(tokens, Token("EOF", "", pos))]
  ELSE
    LET char    == formula[pos + 1]
        twoChar == SubSeq(formula, pos + 1, Min2(pos + 2, Len(formula)))
        one(type) == tokenizeFrom(formula, pos + 1, Append(tokens, Token(type, char, pos)))
    IN IF char = " " THEN tokenizeFrom(formula, pos + 1, tokens)
       ELSE IF \/ char \in Digits
               \/ char = "." /\ pos + 1 < Len(formula) /\ formula[pos + 2] \in Digits
       THEN LET end == RunEnd(formula, pos, Digits \cup {"."})
            IN tokenizeFrom(formula, end,
                 Append(tokens, Token("NUMBER", parseFloat(SubSeq(formula, pos + 1, end)), pos)))
       ELSE IF char \in Letters
       THEN LET end == RunEnd(formula, pos, Letters \cup Digits \cup {"."})
            IN tokenizeFrom(formula, end,
                 Append(tokens, Token("IDENTIFIER", SubSeq(formula, pos + 1, end), pos)))
       ELSE IF twoChar \in TWO_CHAR_COMPARATORS
       THEN tokenizeFrom(formula, pos + 2, Append(tokens, Token("COMPARATOR", Text(twoChar), pos)))
       ELSE IF twoChar \in TWO_CHAR_LOGIC
       THEN tokenizeFrom(formula, pos + 2, Append(tokens, Token("LOGIC", Text(twoChar), pos)))
       ELSE IF char \in OPERATORS THEN one("OPERATOR")
       ELSE IF char = "<" \/ char = ">" THEN one("COMPARATOR")
       ELSE IF char = "!" THEN one("LOGIC")
       ELSE IF char = "(" THEN one("LPAREN")
       ELSE IF char = ")" THEN one("RPAREN")
       ELSE IF char = "," THEN one("COMMA")
       ELSE IF char = "?" THEN one("TERNARY_Q")
       ELSE IF char = ":" THEN one("TERNARY_COLON")
       ELSE Throw(<<"Unexpected character", char, pos>>)

tokenize(formula) == tokenizeFrom(formula, 0, <<>>)


----------------------------------------------------------------------------
(* FormulaParser.  The grammar rules take the token list and this.pos and  *)
(* return the node with the position reached, or the error thrown with the *)
(* position at which it was thrown.                                        *)

Ok(node, pos) == [ok |-> TRUE, node |-> node, pos |-> pos]

Fail(message, pos) == [ok |-> FALSE, error |-> message, pos |-> pos]

\* the rest K of a rule after a call that returned r; a call that threw ends it
Then(r, K(_)) == IF r.ok THEN K(r) ELSE r

current(tokens, pos) == tokens[pos + 1]

expect(tokens, pos, type) ==
  LET token == current(tokens, pos)
  IN IF token.type # type
     THEN Fail(<<"Expected", type, "but got", token.type, token.position>>, pos)
     ELSE Ok(token, pos + 1)

BinaryOpNode(op, left, right) ==
  [type |-> "BinaryOp", operator |-> op, left |-> left, right |-> right]

UnaryOpNode(op, operand) == [type |-> "UnaryOp", operator |-> op, operand |-> operand]

RECURSIVE parseTernary(_, _)
RECURSIVE parseLogicalOr(_, _)
RECURSIVE parseLogicalAnd(_, _)
RECURSIVE parseComparison(_, _)
RECURSIVE parseAdditive(_, _)
RECURSIVE parseMultiplicative(_, _)
RECURSIVE parseUnary(_, _)
RECURSIVE parsePrimary(_, _)
RECURSIVE parseFunctionCall(_, _, _)
RECURSIVE ArgumentsLoop(_, _, _)
RECURSIVE LogicalOrLoop(_, _)
RECURSIVE LogicalAndLoop(_, _)
RECURSIVE ComparisonLoop(_, _)
RECURSIVE AdditiveLoop(_, _)
RECURSIVE MultiplicativeLoop(_, _)

parseTernary(tokens, pos) ==
  Then(parseLogicalOr(tokens, pos), LAMBDA c :
    IF current(tokens, c.pos).type # "TERNARY_Q" THEN c
    ELSE Then(parseTernary(tokens, c.pos + 1), LAMBDA ifTrue :
         Then(expect(tokens, ifTrue.pos, "TERNARY_COLON"), LAMBDA colon :
         Then(parseTernary(tokens, colon.pos), LAMBDA ifFalse :
           Ok([type |-> "Ternary", condition |-> c.node,
               ifTrue |-> ifTrue.node, ifFalse |-> ifFalse.node],
              ifFalse.pos)))))

\* the while loops of the binary levels: l is the node parsed so far
LogicalOrLoop(tokens, l) ==
  LET token == current(tokens, l.pos)
  IN IF token.type = "LOGIC" /\ token.value = "||"
     THEN Then(parseLogicalAnd(tokens, l.pos + 1), LAMBDA right :
            LogicalOrLoop(tokens, Ok(BinaryOpNode(token.value, l.node, right.node), right.pos)))
     ELSE l

parseLogicalOr(tokens, pos) ==
  Then(parseLogicalAnd(tokens, pos), LAMBDA node : LogicalOrLoop(tokens, node))

LogicalAndLoop(tokens, l) ==
  LET token == current(tokens, l.pos)
  IN IF token.type = "LOGIC" /\ token.value = "&&"
     THEN Then(parseComparison(tokens, l.pos + 1), LAMBDA right :
            LogicalAndLoop(tokens, Ok(BinaryOpNode(token.value, l.node, right.node), right.pos)))
     ELSE l

parseLogicalAnd(tokens, pos) ==
  Then(parseComparison(tokens, pos), LAMBDA node : LogicalAndLoop(tokens, node))

ComparisonLoop(tokens, l) ==
  LET token == current(tokens, l.pos)
  IN IF token.type = "COMPARATOR"
     THEN Then(parseAdditive(tokens, l.pos + 1), LAMBDA right :
            ComparisonLoop(tokens, Ok(BinaryOpNode(token.value, l.node, right.node), right.pos)))
     ELSE l

parseComparison(tokens, pos) ==
  Then(parseAdditive(tokens, pos), LAMBDA node : ComparisonLoop(tokens, node))

\* an additive level that takes all that follows as the right operand
AdditiveLoop_RightAssociative(tokens, l) ==
  LET token == current(tokens, l.pos)
  IN IF token.type = "OPERATOR" /\ token.value \in {"+", "-"}
     THEN Then(parseAdditive(tokens, l.pos + 1), LAMBDA right :
            Ok(BinaryOpNode(token.value, l.node, right.node), right.pos))
     ELSE l

AdditiveLoop(tokens, l) ==
  LET token == current(tokens, l.pos)
  IN IF token.type = "OPERATOR" /\ token.value \in {"+", "-"}
     THEN Then(parseMultiplicative(tokens, l.pos + 1), LAMBDA right :
            AdditiveLoop(tokens, Ok(BinaryOpNode(token.value, l.node, right.node), right.pos)))
     ELSE l

parseAdditive(tokens, pos) ==
  Then(parseMultiplicative(tokens, pos), LAMBDA node : AdditiveLoop(tokens, node))

MultiplicativeLoop(tokens, l) ==
  LET token == current(tokens, l.pos)
  IN IF token.type = "OPERATOR" /\ token.value \in {"*", "/", "%"}
     THEN Then(parseUnary(tokens, l.pos + 1), LAMBDA right :
            MultiplicativeLoop(tokens, Ok(BinaryOpNode(token.value, l.node, right.node), right.pos)))
     ELSE l

parseMultiplicative(tokens, pos) ==
  Then(parseUnary(tokens, pos), LAMBDA node : MultiplicativeLoop(tokens, node))

parseUnary(tokens, pos) ==
  LET token == current(tokens, pos)
  IN IF token.type = "OPERATOR" /\ token.value = "-"
     THEN Then(parseUnary(tokens, pos + 1), LAMBDA operand :
            Ok(UnaryOpNode("-", operand.node), operand.pos))
     ELSE IF token.type = "LOGIC" /\ token.value = "!"
     THEN Then(parseUnary(tokens, pos + 1), LAMBDA operand :
            Ok(UnaryOpNode("!", operand.node), operand.pos))
     ELSE parsePrimary(tokens, pos)

parsePrimary(tokens, pos) ==
  LET token == current(tokens, pos)
  IN IF token.type = "NUMBER"
     THEN Ok([type |-> "Number", value |-> token.value], pos + 1)
     ELSE IF token.type = "IDENTIFIER"
     THEN (IF current(tokens, pos + 1).type = "LPAREN"
           THEN parseFunctionCall(tokens, pos + 1, token.value)
           ELSE Ok([type |-> "Identifier", name |-> token.value], pos + 1))
     ELSE IF token.type = "LPAREN"
     THEN Then(parseTernary(tokens, pos + 1), LAMBDA node :
          Then(expect(tokens, node.pos, "RPAREN"), LAMBDA close :
            Ok(node.node, close.pos)))
     ELSE Fail(<<"Unexpected token", token.type, token.position>>, pos)

\* the arguments after the first: args holds the list parsed so far
ArgumentsLoop(tokens, pos, args) ==
  IF current(tokens, pos).type = "COMMA"
  THEN Then(parseTernary(tokens, pos + 1), LAMBDA arg :
         ArgumentsLoop(tokens, arg.pos, Append(args, arg.node)))
  ELSE Ok(args, pos)

parseFunctionCall(tokens, pos, name) ==
  Then(expect(tokens, pos, "LPAREN"), LAMBDA open :
  Then(IF current(tokens, open.pos).type # "RPAREN"
       THEN Then(parseTernary(tokens, open.pos), LAMBDA first :
              ArgumentsLoop(tokens, first.pos, <<first.node>>))
       ELSE Ok(<<>>, open.pos),
       LAMBDA args :
  Then(expect(tokens, args.pos, "RPAREN"), LAMBDA close :
    Ok([type |-> "FunctionCall", name |-> name, args |-> args.node], close.pos))))

\* a parser as constructed
NewParser == [tokens |-> <<>>, pos |-> 0]

\* the call's outcome and the instance after it
Returned(this, value) == [this |-> this, ok |-> TRUE, value |-> value]

Threw(this, message) == [this |-> this, ok |-> FALSE, error |-> message]

\* a parse that keeps the token list it has
parse_KeepsTokens(this, formula) ==
  With(tokenize(formula), LAMBDA t :
    IF ~t.ok THEN Threw(this, t.error)
    ELSE LET tokens == IF this.tokens = <<>> THEN t.tokens ELSE this.tokens
         IN With(parseTernary(tokens, 0), LAMBDA ast :
              IF ~ast.ok THEN Threw([tokens |-> tokens, pos |-> ast.pos], ast.error)
              ELSE LET eof == expect(tokens, ast.pos, "EOF")
                   IN IF ~eof.ok THEN Threw([tokens |-> tokens, pos |-> eof.pos], eof.error)
                      ELSE Returned([tokens |-> tokens, pos |-> eof.pos], ast.node)))

parse(this, formula) ==
  With(tokenize(formula), LAMBDA t :
    IF ~t.ok THEN Threw(this, t.error)
    ELSE LET tokens == t.tokens
         IN With(parseTernary(tokens, 0), LAMBDA ast :
              IF ~ast.ok THEN Threw([tokens |-> tokens, pos |-> ast.pos], ast.error)
              ELSE LET eof == expect(tokens, ast.pos, "EOF")
                   IN IF ~eof.ok THEN Threw([tokens |-> tokens, pos |-> eof.pos], eof.error)
                      ELSE Returned([tokens |-> tokens, pos |-> eof.pos], ast.node)))


----------------------------------------------------------------------------
(* Evaluation.  A context maps a name to a number or to a nested context;  *)
(* names are character sequences, numbers the fractions of Num.            *)

Number(x) == [kind |-> "number", value |-> x]

Object(fields) == [kind |-> "object", fields |-> fields]

\* name.split('.')
RECURSIVE Split(_)
Split(name) ==
  LET end == RunEnd(name, 0, Letters \cup Digits)
  IN IF end >= Len(name) THEN <<name>>
     ELSE <<SubSeq(name, 1, end)>> \o Split(SubSeq(name, end + 2, Len(name)))

Undefined == [kind |-> "undefined"]

RECURSIVE Walk(_, _)
Walk(value, parts) ==
  IF parts = <<>> THEN value
  ELSE IF value.kind = "object" /\ Head(parts) \in DOMAIN value.fields
  THEN Walk(value.fields[Head(parts)], Tail(parts))
  ELSE Undefined

resolveIdentifier(name, context) ==
  LET value == Walk(Object(context), Split(name))
  IN IF value.kind = "number" THEN value ELSE Undefined

Value(x) == [ok |-> TRUE, value |-> x]

NegNum(x) == [n |-> 0 - x.n, d |-> x.d]

\* Math.trunc(x) of a finite x
TruncNum(x) == IF x.n >= 0 THEN FloorNum(x) ELSE NegNum(FloorNum(NegNum(x)))

\* left % right of finite numbers, right not 0: the sign is that of left
RemNum(left, right) == SubNum(left, MulNum(TruncNum(DivNum(left, right)), right))

\* left === right
SameNum(left, right) == ~IsNaN(left) /\ ~IsNaN(right) /\ left = right

\* the truthiness of a number
TruthyNum(x) == ~IsNaN(x) /\ x.n # 0

Bit(b) == Value(Num(IF b THEN 1 ELSE 0))

\* the operators of JavaScript, with no check of the divisor
applyBinaryOp_NoZeroCheck(op, left, right) ==
  CASE op = "+" -> Value(AddNum(left, right))
    [] op = "-" -> Value(SubNum(left, right))
    [] op = "*" -> Value(MulNum(left, right))
    [] op = "/" -> Value(DivNum(left, right))
    [] op = "%" -> IF right = Num(0) THEN Value(NaN) ELSE Value(RemNum(left, right))
    [] op = "<" -> Bit(LessNum(left, right))
    [] op = ">" -> Bit(LessNum(right, left))
    [] op = "<=" -> Bit(LessNum(left, right) \/ SameNum(left, right))
    [] op = ">=" -> Bit(LessNum(right, left) \/ SameNum(left, right))
    [] op = "==" -> Bit(SameNum(left, right))
    [] op = "!=" -> Bit(~SameNum(left, right))
    [] op = "&&" -> Bit(TruthyNum(left) /\ TruthyNum(right))
    [] op = "||" -> Bit(TruthyNum(left) \/ TruthyNum(right))
    [] OTHER -> Throw(<<"Unknown operator", op>>)

applyBinaryOp(op, left, right) ==
  CASE op = "+" -> Value(AddNum(left, right))
    [] op = "-" -> Value(SubNum(left, right))
    [] op = "*" -> Value(MulNum(left, right))
    [] op = "/" -> IF right = Num(0) THEN Throw(<<"Division by zero">>)
                   ELSE Value(DivNum(left, right))
    [] op = "%" -> IF right = Num(0) THEN Throw(<<"Modulo by zero">>)
                   ELSE Value(RemNum(left, right))
    [] op = "<" -> Bit(LessNum(left, right))
    [] op = ">" -> Bit(LessNum(right, left))
    [] op = "<=" -> Bit(LessNum(left, right) \/ SameNum(left, right))
    [] op = ">=" -> Bit(LessNum(right, left) \/ SameNum(left, right))
    [] op = "==" -> Bit(SameNum(left, right))
    [] op = "!=" -> Bit(~SameNum(left, right))
    [] op = "&&" -> Bit(TruthyNum(left) /\ TruthyNum(right))
    [] op = "||" -> Bit(TruthyNum(left) \/ TruthyNum(right))
    [] OTHER -> Throw(<<"Unknown operator", op>>)

applyUnaryOp(op, operand) ==
  CASE op = "-" -> Value(NegNum(operand))
    [] op = "!" -> Bit(~TruthyNum(operand))
    [] OTHER -> Throw(<<"Unknown unary operator", op>>)

MinNum(x, y) == IF IsNaN(x) \/ IsNaN(y) THEN NaN ELSE IF LessNum(y, x) THEN y ELSE x

AbsNum(x) == IF x.n < 0 THEN NegNum(x) ELSE x

\* the built-in functions this model computes, on the arguments the formulas of
\* the model give them
BUILTIN_FUNCTIONS ==
  {<<"m", "i", "n">>, <<"m", "a", "x">>, <<"f", "l", "o", "o", "r">>, <<"c", "e", "i", "l">>,
   <<"r", "o", "u", "n", "d">>, <<"a", "b", "s">>, <<"s", "q", "r", "t">>, <<"p", "o", "w">>,
   <<"c", "l", "a", "m", "p">>}

func(name, args) ==
  CASE name = <<"m", "i", "n">> /\ Len(args) = 2 -> MinNum(args[1], args[2])
    [] name = <<"m", "a", "x">> /\ Len(args) = 2 -> MaxNum(args[1], args[2])
    [] name = <<"f", "l", "o", "o", "r">> /\ Len(args) = 1 -> FloorNum(args[1])
    [] name = <<"c", "e", "i", "l">> /\ Len(args) = 1 -> NegNum(FloorNum(NegNum(args[1])))
    [] name = <<"a", "b", "s">> /\ Len(args) = 1 -> AbsNum(args[1])
    [] name = <<"c", "l", "a", "m", "p">> /\ Len(args) = 3 ->
         MinNum(MaxNum(args[1], args[2]), args[3])

RECURSIVE evaluateNode(_, _)
RECURSIVE EvaluateArgs(_, _, _)

\* node.args.map(evaluate): the first argument that throws ends the call
EvaluateArgs(args, context, values) ==
  IF Len(values) = Len(args) THEN Value(values)
  ELSE Then(evaluateNode(args[Len(values) + 1], context), LAMBDA v :
         EvaluateArgs(args, context, Append(values, v.value)))

evaluateNode(node, context) ==
  CASE node.type = "Number" -> Value(node.value)
    [] node.type = "Identifier" ->
         LET value == resolveIdentifier(node.name, context)
         IN IF value = Undefined THEN Throw(<<"Unknown variable", node.name>>)
            ELSE Value(value.value)
    [] node.type = "BinaryOp" ->
         Then(evaluateNode(node.left, context), LAMBDA left :
         Then(evaluateNode(node.right, context), LAMBDA right :
           applyBinaryOp(node.operator, left.value, right.value)))
    [] node.type = "UnaryOp" ->
         Then(evaluateNode(node.operand, context), LAMBDA operand :
           applyUnaryOp(node.operator, operand.value))
    [] node.type = "Ternary" ->
         Then(evaluateNode(node.condition, context), LAMBDA condition :
           IF TruthyNum(condition.value) THEN evaluateNode(node.ifTrue, context)
           ELSE evaluateNode(node.ifFalse, context))
    [] node.type = "FunctionCall" ->
         IF node.name \notin BUILTIN_FUNCTIONS THEN Throw(<<"Unknown function", node.name>>)
         ELSE Then(EvaluateArgs(node.args, context, <<>>), LAMBDA args :
                Value(func(node.name, args.value)))

\* FormulaParser.compute
computeWith(this, formula, context) ==
  Then(parse(this, formula), LAMBDA ast :
    With(evaluateNode(ast.value, context), LAMBDA value :
      IF ~value.ok THEN Threw(ast.this, value.error) ELSE Returned(ast.this, value.value)))

validate(this, formula) ==
  With(parse(this, formula), LAMBDA ast :
    IF ast.ok THEN Returned(ast.this, [valid |-> TRUE])
    ELSE Returned(ast.this, [valid |-> FALSE, error |-> ast.error]))

RECURSIVE collectVariables(_)
RECURSIVE CollectAll(_)

CollectAll(nodes) ==
  IF nodes = <<>> THEN {} ELSE collectVariables(Head(nodes)) \cup CollectAll(Tail(nodes))

collectVariables(node) ==
  CASE node.type = "Identifier" -> {node.name}
    [] node.type = "BinaryOp" -> collectVariables(node.left) \cup collectVariables(node.right)
    [] node.type = "UnaryOp" -> collectVariables(node.operand)
    [] node.type = "Ternary" ->
         collectVariables(node.condition) \cup collectVariables(node.ifTrue)
           \cup collectVariables(node.ifFalse)
    [] node.type = "FunctionCall" -> CollectAll(node.args)
    [] OTHER -> {}

getVariables(this, formula) ==
  Then(parse(this, formula), LAMBDA ast : Returned(ast.this, collectVariables(ast.value)))


----------------------------------------------------------------------------
(* compute on formulas written from their parts                            *)

\* the characters of an operator or a literal
Chars(text) ==
  CASE text = "<=" -> <<"<", "=">>
    [] text = ">=" -> <<">", "=">>
    [] text = "==" -> <<"=", "=">>
    [] text = "!=" -> <<"!", "=">>
    [] text = "&&" -> <<"&", "&">>
    [] text = "||" -> <<"|", "|">>
    [] text = "" -> <<>>
    [] OTHER -> <<text>>

\* the parts of a formula, separated by blanks
RECURSIVE Written(_)
Written(parts) ==
  IF parts = <<>> THEN <<>>
  ELSE IF Len(parts) = 1 THEN Chars(parts[1])
  ELSE Chars(parts[1]) \o <<" ">> \o Written(Tail(parts))

Comparators == {"<", ">", "<=", ">=", "==", "!="}

LogicOperators == {"&&", "||"}

BinaryOperators == OPERATORS \cup Comparators \cup LogicOperators

UnaryOperators == {"-", "!"}

Atoms == {"0", "2", "3"}

Conditions01 == {"0", "1"}

\* the declared precedence of a binary operator, lowest first
Precedence(op) ==
  CASE op = "||" -> 2
    [] op = "&&" -> 3
    [] op \in Comparators -> 4
    [] op \in {"+", "-"} -> 5
    [] op \in {"*", "/", "%"} -> 6

Chain(a, op1, b, op2, c, parens) ==
  [kind |-> "chain", a |-> a, op1 |-> op1, b |-> b, op2 |-> op2, c |-> c, parens |-> parens]

Signed(a, op, b, sign, side) ==
  [kind |-> "signed", a |-> a, op |-> op, b |-> b, sign |-> sign, side |-> side]

Conditional(a, op, b, c, d) ==
  [kind |-> "conditional", a |-> a, op |-> op, b |-> b, c |-> c, d |-> d]

Nested(c1, a, c2, b, d) == [kind |-> "nested", c1 |-> c1, a |-> a, c2 |-> c2, b |-> b, d |-> d]

Shapes ==
  {Chain(a, op1, b, op2, c, parens) :
     a \in Atoms, b \in Atoms, c \in Atoms, op1 \in BinaryOperators, op2 \in BinaryOperators,
     parens \in {"none", "left", "right"}}
  \cup {Signed(a, op, b, sign, side) :
          a \in Atoms, b \in Atoms, op \in BinaryOperators, sign \in UnaryOperators,
          side \in {"left", "right", "twice"}}
  \cup {Conditional(a, op, b, c, d) :
          a \in Atoms, b \in Atoms, op \in BinaryOperators, c \in Atoms, d \in Atoms}
  \cup {Nested(c1, a, c2, b, d) :
          c1 \in Conditions01, c2 \in Conditions01, a \in {"2"}, b \in {"3"}, d \in {"0", "2"}}

\* the formula text of a shape
Formula(shape) ==
  CASE shape.kind = "chain" ->
         Written(CASE shape.parens = "none" ->
                        <<shape.a, shape.op1, shape.b, shape.op2, shape.c>>
                   [] shape.parens = "left" ->
                        <<"(", shape.a, shape.op1, shape.b, ")", shape.op2, shape.c>>
                   [] shape.parens = "right" ->
                        <<shape.a, shape.op1, "(", shape.b, shape.op2, shape.c, ")">>)
    [] shape.kind = "signed" ->
         Written(CASE shape.side = "left" -> <<shape.sign, shape.a, shape.op, shape.b>>
                   [] shape.side = "right" -> <<shape.a, shape.op, shape.sign, shape.b>>
                   [] shape.side = "twice" ->
                        <<shape.sign, shape.sign, shape.a, shape.op, shape.b>>)
    [] shape.kind = "conditional" ->
         Written(<<shape.a, shape.op, shape.b, "?", shape.c, ":", shape.d, shape.op, shape.a>>)
    [] shape.kind = "nested" ->
         Written(<<shape.c1, "?", shape.a, ":", shape.c2, "?", shape.b, ":", shape.d>>)

Literal(a) == Value(Num(DigitValue(a)))

\* a binary operator on two outcomes, the left one first
Binary(op, left, right) ==
  IF ~left.ok THEN left ELSE IF ~right.ok THEN right
  ELSE applyBinaryOp(op, left.value, right.value)

Unary(op, operand) == IF ~operand.ok THEN operand ELSE applyUnaryOp(op, operand.value)

\* what the declared precedence and associativity make of a shape
Declared(shape) ==
  CASE shape.kind = "chain" ->
         IF \/ shape.parens = "right"
            \/ shape.parens = "none" /\ Precedence(shape.op2) > Precedence(shape.op1)
         THEN Binary(shape.op1, Literal(shape.a),
                     Binary(shape.op2, Literal(shape.b), Literal(shape.c)))
         ELSE Binary(shape.op2, Binary(shape.op1, Literal(shape.a), Literal(shape.b)),
                     Literal(shape.c))
    [] shape.kind = "signed" ->
         (CASE shape.side = "left" ->
                 Binary(shape.op, Unary(shape.sign, Literal(shape.a)), Literal(shape.b))
            [] shape.side = "right" ->
                 Binary(shape.op, Literal(shape.a), Unary(shape.sign, Literal(shape.b)))
            [] shape.side = "twice" ->
                 Binary(shape.op, Unary(shape.sign, Unary(shape.sign, Literal(shape.a))),
                        Literal(shape.b)))
    [] shape.kind = "conditional" ->
         LET condition == Binary(shape.op, Literal(shape.a), Literal(shape.b))
         IN IF ~condition.ok THEN condition
            ELSE IF TruthyNum(condition.value) THEN Literal(shape.c)
            ELSE Binary(shape.op, Literal(shape.d), Literal(shape.a))
    [] shape.kind = "nested" ->
         IF shape.c1 = "1" THEN Literal(shape.a)
         ELSE IF shape.c2 = "1" THEN Literal(shape.b)
         ELSE Literal(shape.d)

\* the operator applied last
Outermost(shape) ==
  CASE shape.kind = "chain" ->
         IF \/ shape.parens = "right"
            \/ shape.parens = "none" /\ Precedence(shape.op2) > Precedence(shape.op1)
         THEN shape.op1 ELSE shape.op2
    [] shape.kind = "signed" -> shape.op
    [] OTHER -> "?"

\* the four formulas of the documentation, as compute is given them
Examples ==
  {[kind |-> "example", text |-> <<"2", " ", "+", " ", "3", " ", "*", " ", "4">>, is |-> 14],
   [kind |-> "example", text |-> <<"(", "2", " ", "+", " ", "3", ")", " ", "*", " ", "4">>,
    is |-> 20],
   [kind |-> "example", text |-> <<"1", "0", " ", "-", " ", "4", " ", "-", " ", "3">>, is |-> 3],
   [kind |-> "example", text |-> <<"1", " ", "?", " ", "2", " ", ":", " ", "3">>, is |-> 2]}

Outcome(r) == IF r.ok THEN [ok |-> TRUE, value |-> r.value] ELSE [ok |-> FALSE, error |-> r.error]

InitFormula == InitWith(Scenes, 0)

\* compute(formula, {}) on a new parser
ComputeShape ==
  /\ trace = <<>>
  /\ \E shape \in Shapes \cup Examples :
       LET formula == IF shape.kind = "example" THEN shape.text ELSE Formula(shape)
           r == computeWith(parser, formula, <<>>)
       IN /\ parser' = r.this
          /\ trace' = <<[ev |-> "compute", shape |-> shape, formula |-> formula,
                         result |-> Outcome(r)]>>
  /\ UNCHANGED <<machineVars, emitted, overflow, scene, lastOp, snapshot, resultWrites,
                 dialogsLeft, resume, listeners, notified, observed>>


Computed == trace # <<>> /\ trace[1].shape \in Shapes \cup Examples

\* C25: compute follows the declared precedence (ternary, ||, &&, comparison,
\* + -, * / %, unary, primary), binary operators are left-associative and the
\* ternary right-associative; 2 + 3 * 4 is 14, (2 + 3) * 4 is 20, 10 - 4 - 3
\* is 3, 1 ? 2 : 3 is 2; a comparison or logical operator yields 1 or 0.
C25_DeclaredPrecedence ==
  Computed =>
    LET e == trace[1]
    IN IF e.shape.kind = "example" THEN e.result = Value(Num(e.shape.is))
       ELSE /\ e.result = Declared(e.shape)
            /\ (e.result.ok /\ Outermost(e.shape) \in Comparators \cup LogicOperators)
                 => e.result.value \in {Num(0), Num(1)}

\* 2 - 3 * 3 was computed as 2 - (3 * 3), not as (2 - 3) * 3
C25_ProductFirst ==
  /\ Computed
  /\ trace[1].shape = Chain("2", "-", "3", "*", "3", "none")
  /\ trace[1].result = Value(Num(-7))


----------------------------------------------------------------------------
(* divisions and where they stand in a formula                             *)

\* the variables of the calls: x is 2, z is 0
Variables == (<<"x">> :> Number(Num(2))) @@ (<<"z">> :> Number(Num(0)))

Division(text, operator, byZero) == [text |-> text, operator |-> operator, byZero |-> byZero]

Divisions ==
  {Division(<<"1", " ", "/", " ", "0">>, "/", TRUE),
   Division(<<"1", " ", "%", " ", "0">>, "%", TRUE),
   Division(<<"0", "/", "0">>, "/", TRUE),
   Division(<<"x", " ", "/", " ", "z">>, "/", TRUE),
   Division(<<"x", " ", "%", " ", "(", "x", " ", "-", " ", "2", ")">>, "%", TRUE),
   Division(<<"3", " ", "/", " ", "(", "z", " ", "*", " ", "-", "1", ")">>, "/", TRUE),
   Division(<<"3", " ", "%", " ", "0", ".", "0">>, "%", TRUE),
   Division(<<"1", " ", "/", " ", "x">>, "/", FALSE),
   Division(<<"3", " ", "%", " ", "x">>, "%", FALSE),
   Division(<<"0", " ", "/", " ", "3">>, "/", FALSE)}

\* the places, each with the operand that stands beside the division
Places ==
  {"alone", "negated", "not", "sum", "timesZero", "zeroTimes", "compared", "argument",
   "numerator", "andRight", "andLeft", "orRight", "orLeft", "ifTrue", "ifFalse",
   "condition"}

Flags == {"0", "1"}

Parens(text) == <<"(">> \o text \o <<")">>

Placed(place, flag, text) ==
  CASE place = "alone" -> text
    [] place = "negated" -> <<"-">> \o Parens(text)
    [] place = "not" -> <<"!">> \o Parens(text)
    [] place = "sum" -> <<flag, " ", "+", " ">> \o text
    [] place = "timesZero" -> Parens(text) \o <<" ", "*", " ", "0">>
    [] place = "zeroTimes" -> <<"0", " ", "*", " ">> \o Parens(text)
    [] place = "compared" -> <<flag, " ", "<", " ">> \o text
    [] place = "argument" -> <<"m", "a", "x", "(", flag, ",", " ">> \o text \o <<")">>
    [] place = "numerator" -> Parens(text) \o <<" ", "/", " ", "2">>
    [] place = "andRight" -> <<flag, " ", "&", "&", " ">> \o Parens(text)
    [] place = "andLeft" -> Parens(text) \o <<" ", "&", "&", " ", flag>>
    [] place = "orRight" -> <<flag, " ", "|", "|", " ">> \o Parens(text)
    [] place = "orLeft" -> Parens(text) \o <<" ", "|", "|", " ", flag>>
    [] place = "ifTrue" -> <<flag, " ", "?", " ">> \o text \o <<" ", ":", " ", "2">>
    [] place = "ifFalse" -> <<flag, " ", "?", " ", "2", " ", ":", " ">> \o text
    [] place = "condition" -> text \o <<" ", "?", " ", "2", " ", ":", " ", "3">>

\* the place is the ternary branch that is not selected
NotSelected(place, flag) ==
  \/ place = "ifTrue" /\ flag = "0"
  \/ place = "ifFalse" /\ flag = "1"

\* compute(formula, {x: 2, z: 0}) on a new parser
ComputeDivision ==
  /\ trace = <<>>
  /\ \E division \in Divisions, place \in Places, flag \in Flags :
       LET formula == Placed(place, flag, division.text)
           r == computeWith(parser, formula, Variables)
       IN /\ parser' = r.this
          /\ trace' = <<[ev |-> "compute",
                         shape |-> [kind |-> "division", division |-> division,
                                    place |-> place, flag |-> flag],
                         formula |-> formula, result |-> Outcome(r)]>>
  /\ UNCHANGED <<machineVars, emitted, overflow, scene, lastOp, snapshot, resultWrites,
                 dialogsLeft, resume, listeners, notified, observed>>

NextFormula ==
  \/ ComputeShape
  \/ ComputeDivision

SpecFormula == InitFormula /\ [][NextFormula]_vars

Divided == trace # <<>> /\ trace[1].shape.kind = "division"

ZeroError(operator) ==
  Throw(IF operator = "/" THEN <<"Division by zero">> ELSE <<"Modulo by zero">>)

\* C26: compute throws 'Division by zero' or 'Modulo by zero' whenever the
\* right operand of a / or % is 0, wherever the division stands, and returns
\* neither Infinity nor NaN; only the ternary branch that is not selected is
\* not evaluated, whereas && and || evaluate both operands.
C26_ZeroDivisorThrows ==
  Divided =>
    LET e == trace[1]
    IN IF e.shape.division.byZero /\ ~NotSelected(e.shape.place, e.shape.flag)
       THEN e.result = ZeroError(e.shape.division.operator)
       ELSE e.result.ok /\ e.result.value.d > 0

\* 0 && (1 / 0) threw although the left operand decides the result
C26_ThrownBehindDecidedAnd ==
  /\ Divided
  /\ trace[1].formula = <<"0", " ", "&", "&", " ", "(", "1", " ", "/", " ", "0", ")">>
  /\ trace[1].result = Throw(<<"Division by zero">>)


----------------------------------------------------------------------------
(* one FormulaParser used for a sequence of calls                          *)

ParserFormulas ==
  {<<"2", " ", "+", " ", "3", " ", "*", " ", "4">>,
   <<"x", " ", "<", " ", "3", " ", "?", " ", "x", " ", ":", " ", "z">>,
   <<"m", "a", "x", "(", "x", ",", " ", "y", ")">>,
   <<"1", " ", "/", " ", "z">>,
   <<"2", " ", "*">>,
   <<"(", "1", " ", "+", " ", "2">>,
   <<"1", " ", "2">>,
   <<"2", " ", "#">>}

Methods == {"parse", "compute", "validate", "getVariables"}

\* the call of a method on the parser this
Call(this, method, formula) ==
  CASE method = "parse" -> parse(this, formula)
    [] method = "compute" -> computeWith(this, formula, Variables)
    [] method = "validate" -> validate(this, formula)
    [] method = "getVariables" -> getVariables(this, formula)

ParserCall(method) ==
  /\ Len(trace) < MaxCalls
  /\ \E formula \in ParserFormulas :
       LET r == Call(parser, method, formula)
       IN /\ parser' = r.this
          /\ trace' = Append(trace, [ev |-> method, formula |-> formula, before |-> parser,
                                     result |-> Outcome(r)])
  /\ UNCHANGED <<machineVars, emitted, overflow, scene, lastOp, snapshot, resultWrites,
                 dialogsLeft, resume, listeners, notified, observed>>

Parse == ParserCall("parse")

Compute == ParserCall("compute")

Validate == ParserCall("validate")

GetVariables == ParserCall("getVariables")

NextParser ==
  \/ Parse
  \/ Compute
  \/ Validate
  \/ GetVariables

SpecParser == InitFormula /\ [][NextParser]_vars

\* C27: after any sequence of earlier calls, also ones that threw part-way
\* through parsing, parse, compute, validate and getVariables return or throw
\* what a newly constructed parser does for the same arguments.
C27_SharedLikeFresh ==
  \A i \in 1..Len(trace) :
    trace[i].result = Outcome(Call(NewParser, trace[i].ev, trace[i].formula))

\* a compute that follows a parse that threw in the middle of its tokens and a
\* call that threw in the tokenizer
C27_ComputedAfterThrows ==
  /\ Len(trace) = 3
  /\ trace[1].ev = "parse" /\ ~trace[1].result.ok
  /\ trace[2].before.pos > 0 /\ trace[2].before.pos < Len(trace[2].before.tokens)
  /\ trace[2].formula = <<"2", " ", "#">> /\ trace[3].before = trace[2].before
  /\ trace[3].ev = "compute" /\ trace[3].result = Value(Num(14))


----------------------------------------------------------------------------
(* StatEngine: the validation of a configuration by the constructor, which *)
(* uses the shared formulaParser                                           *)

Level == <<"L", "e", "v", "e", "l">>

EnemyDef == <<"E", "n", "e", "m", "y", "D", "e", "f">>

SpecialVars ==
  {EnemyDef, <<"E", "n", "e", "m", "y", "R", "e", "s">>,
   <<"E", "n", "e", "m", "y", "S", "p", "e", "e", "d">>,
   <<"E", "n", "e", "m", "y", "E", "v", "a", "s", "i", "o", "n">>, Level}

\* a formula as game data writes it, with what its author knows of it: whether
\* it is well-formed and the names it refers to
GameFormula(text, wellFormed, names) == [text |-> text, wellFormed |-> wellFormed, names |-> names]

DerivedFormulas ==
  {GameFormula(<<"S", " ", "*", " ", "2">>, TRUE, {<<"S">>}),
   GameFormula(<<"A", " ", "+", " ">> \o Level, TRUE, {<<"A">>, Level}),
   GameFormula(<<"B", " ", "+", " ", "1">>, TRUE, {<<"B">>}),
   GameFormula(<<"m", "a", "x", "(", "S", ",", " ", "D", ")", " ", "*", " ">> \o Level, TRUE,
            {<<"S">>, <<"D">>, Level}),
   GameFormula(<<"A", " ", "?", " ", "B", " ", ":", " ", "S">>, TRUE, {<<"A">>, <<"B">>, <<"S">>}),
   GameFormula(<<"f", "l", "o", "o", "r", "(", "S", " ", "/", " ", "0", ")">>, TRUE, {<<"S">>}),
   GameFormula(<<"X", " ", "*", " ", "2">>, TRUE, {<<"X">>}),
   GameFormula(<<"S", " ", "+">>, FALSE, {<<"S">>}),
   GameFormula(<<"S", " ", "$", " ", "2">>, FALSE, {<<"S">>})}

PrimaryStats == <<[id |-> <<"S">>], [id |-> <<"D">>]>>

DerivedIds == {<<"A">>, <<"B">>}

DerivedStat(id, formula) == [id |-> id, formula |-> formula]

\* the derived stats of a game: none, one, or two with different ids
DerivedLists ==
  {<<>>}
  \cup {<<DerivedStat(id, f)>> : id \in DerivedIds, f \in DerivedFormulas}
  \cup {<<DerivedStat(ids[1], f1), DerivedStat(ids[2], f2)>> :
          ids \in {<<<<"A">>, <<"B">>>>, <<<<"B">>, <<"A">>>>},
          f1 \in DerivedFormulas, f2 \in DerivedFormulas}

CombatFormulaSets ==
  {[physicalDamage |-> GameFormula(<<"S", " ", "-", " ">> \o EnemyDef, TRUE, {<<"S">>, EnemyDef}),
    magicDamage |-> GameFormula(<<"D">>, TRUE, {<<"D">>}),
    criticalCheck |-> GameFormula(<<"5">>, TRUE, {}),
    turnOrder |-> GameFormula(<<"S", " ", "+", " ">> \o Level, TRUE, {<<"S">>, Level})],
   [physicalDamage |-> GameFormula(<<"A", " ", "+", " ", "B">>, TRUE, {<<"A">>, <<"B">>}),
    magicDamage |-> GameFormula(<<"D">>, TRUE, {<<"D">>}),
    criticalCheck |-> GameFormula(<<"5">>, TRUE, {}),
    turnOrder |-> GameFormula(<<"S">>, TRUE, {<<"S">>})],
   [physicalDamage |-> GameFormula(<<"S">>, TRUE, {<<"S">>}),
    magicDamage |-> GameFormula(<<"D">>, TRUE, {<<"D">>}),
    criticalCheck |-> GameFormula(<<"X">>, TRUE, {<<"X">>}),
    turnOrder |-> GameFormula(<<"S">>, TRUE, {<<"S">>})],
   [physicalDamage |-> GameFormula(<<"S">>, TRUE, {<<"S">>}),
    magicDamage |-> GameFormula(<<"D">>, TRUE, {<<"D">>}),
    criticalCheck |-> GameFormula(<<"5">>, TRUE, {}),
    turnOrder |-> GameFormula(<<"S", " ", "+">>, FALSE, {<<"S">>})]}

Ids(list) == {list[i].id : i \in 1..Len(list)}

\* the outcome of a step of the constructor: the error thrown, if any, and the
\* formulaParser as the step leaves it
Done(fp) == [ok |-> TRUE, parser |-> fp]

Rejected(message, fp) == [ok |-> FALSE, error |-> message, parser |-> fp]

\* a loop that never makes a derived stat available to the formulas after it
RECURSIVE ValidateDerived_NoChaining(_, _, _, _)
ValidateDerived_NoChaining(derivedStats, i, availableVars, fp) ==
  IF i > Len(derivedStats) THEN Done(fp)
  ELSE LET derived == derivedStats[i]
       IN With(validate(fp, derived.formula.text), LAMBDA validation :
            IF ~validation.value.valid
            THEN Rejected(<<"Invalid formula for derived stat", derived.id>>, validation.this)
            ELSE With(getVariables(validation.this, derived.formula.text),
                      LAMBDA requiredVars :
                   IF requiredVars.value \ availableVars # {}
                   THEN Rejected(<<"Derived stat references unknown stat", derived.id>>,
                                 requiredVars.this)
                   ELSE ValidateDerived_NoChaining(derivedStats, i + 1, availableVars,
                        requiredVars.this)))

\* the loop over the derived stats, from the i-th on
RECURSIVE ValidateDerived(_, _, _, _)
ValidateDerived(derivedStats, i, availableVars, fp) ==
  IF i > Len(derivedStats) THEN Done(fp)
  ELSE LET derived == derivedStats[i]
       IN With(validate(fp, derived.formula.text), LAMBDA validation :
            IF ~validation.value.valid
            THEN Rejected(<<"Invalid formula for derived stat", derived.id>>, validation.this)
            ELSE With(getVariables(validation.this, derived.formula.text),
                      LAMBDA requiredVars :
                   IF requiredVars.value \ availableVars # {}
                   THEN Rejected(<<"Derived stat references unknown stat", derived.id>>,
                                 requiredVars.this)
                   ELSE ValidateDerived(derivedStats, i + 1, availableVars \cup {derived.id},
                        requiredVars.this)))

validateCombatFormula(config, formulaName, primaryIds, derivedIds, fp) ==
  LET formula == config.combatFormulas[formulaName].text
  IN With(validate(fp, formula), LAMBDA validation :
       IF ~validation.value.valid
       THEN Rejected(<<"Invalid combat formula", formulaName>>, validation.this)
       ELSE With(getVariables(validation.this, formula), LAMBDA requiredVars :
              IF requiredVars.value \ (primaryIds \cup derivedIds \cup SpecialVars) # {}
              THEN Rejected(<<"Combat formula references unknown stat", formulaName>>,
                            requiredVars.this)
              ELSE Done(requiredVars.this)))

CombatFormulaNames == <<"physicalDamage", "magicDamage", "criticalCheck", "turnOrder">>

RECURSIVE ValidateCombat(_, _, _, _, _)
ValidateCombat(config, i, primaryIds, derivedIds, fp) ==
  IF i > Len(CombatFormulaNames) THEN Done(fp)
  ELSE Then(validateCombatFormula(config, CombatFormulaNames[i], primaryIds, derivedIds, fp),
            LAMBDA r : ValidateCombat(config, i + 1, primaryIds, derivedIds, r.parser))

validateConfig(config, fp) ==
  LET primaryStatIds == Ids(config.primaryStats)
      derivedStatIds == Ids(config.derivedStats)
  IN Then(ValidateDerived(config.derivedStats, 1, {Level} \cup primaryStatIds, fp),
          LAMBDA derived :
            ValidateCombat(config, 1, primaryStatIds, derivedStatIds, derived.parser))

\* new StatEngine(config)
NewStatEngine ==
  /\ trace = <<>>
  /\ \E derivedStats \in DerivedLists, combatFormulas \in CombatFormulaSets :
       LET config == [primaryStats |-> PrimaryStats, derivedStats |-> derivedStats,
                      combatFormulas |-> combatFormulas]
       IN \E r \in {validateConfig(config, parser)} :
            /\ parser' = r.parser
            /\ trace' = <<[ev |-> "StatEngine", config |-> config, constructed |-> r.ok]>>
  /\ UNCHANGED <<machineVars, emitted, overflow, scene, lastOp, snapshot, resultWrites,
                 dialogsLeft, resume, listeners, notified, observed>>

NextStats == NewStatEngine

SpecStats == InitFormula /\ [][NextStats]_vars

\* the i-th derived formula is malformed or refers to a name that is no primary
\* stat, not Level and no derived stat declared before it
BadDerived(config, i) ==
  LET f == config.derivedStats[i].formula
  IN \/ ~f.wellFormed
     \/ f.names \ (Ids(config.primaryStats) \cup {Level}
                   \cup {config.derivedStats[j].id : j \in 1..(i - 1)}) # {}

CombatFormulasValid(config) ==
  \A name \in DOMAIN config.combatFormulas :
    LET f == config.combatFormulas[name]
    IN /\ f.wellFormed
       /\ f.names \subseteq Ids(config.primaryStats) \cup Ids(config.derivedStats) \cup SpecialVars

\* C28: the constructor throws if a derived-stat formula is malformed or refers
\* to a name that is not a primary stat, Level or a derived stat declared
\* earlier (a later one and the stat itself are rejected), and succeeds when
\* all derived formulas refer only to such names and the combat formulas are valid.
C28_ConstructorValidates ==
  (trace # <<>> /\ trace[1].ev = "StatEngine") =>
    LET config == trace[1].config
        bad == \E i \in 1..Len(config.derivedStats) : BadDerived(config, i)
    IN /\ bad => ~trace[1].constructed
       /\ (~bad /\ CombatFormulasValid(config)) => trace[1].constructed

\* B = A + Level after A = S * 2 was accepted
C28_ChainAccepted ==
  /\ trace # <<>> /\ trace[1].ev = "StatEngine" /\ trace[1].constructed
  /\ Len(trace[1].config.derivedStats) = 2
  /\ trace[1].config.derivedStats[2].formula.names = {<<"A">>, Level}

\* A = B + 1 before B was rejected
C28_LaterRejected ==
  /\ trace # <<>> /\ trace[1].ev = "StatEngine" /\ ~trace[1].constructed
  /\ Len(trace[1].config.derivedStats) = 2
  /\ trace[1].config.derivedStats[1].id = <<"A">>
  /\ trace[1].config.derivedStats[1].formula.names = {<<"B">>}
  /\ trace[1].config.derivedStats[2].formula.names = {<<"S">>}
  /\ trace[1].config.derivedStats[2].formula.wellFormed


----------------------------------------------------------------------------
(* A battle whose triggers put timed modifiers on the combatants: on the   *)
(* player for two turns when the battle starts, and when the second round  *)
(* starts on the first enemy for the default three turns and on the second *)
(* enemy for one turn.                                                     *)

BuffScene ==
  Scene(<<"a", "a_1">>,
        << Trigger("", "1", TRUE, NoNum, BuffAction("hero", "Defense", 1, 2)),
           Trigger("", "turn >= 2", TRUE, NoNum, BuffAction("a", "Attack", 1, NoNum)),
           Trigger("", "turn >= 2", TRUE, NoNum, BuffAction("a_1", "Defense", 1, 1)) >>)

InitBuff == InitWith({BuffScene}, 0)

\* the commands of a client that queues no dialogs of its own
NextBuff ==
  \/ Initialize
  \/ Start
  \/ SelectAction
  \/ SelectTargets
  \/ CancelTargetSelection

SpecBuff == InitBuff /\ [][NextBuff]_vars

TurnEvents == {i \in 1..Len(trace) : trace[i].ev = "turn"}

\* what the turn start recorded by the event e did to the modifiers: those of
\* its combatant are ticked once, those of the others are as they were, and
\* the current stats of its combatant are the ones of the ticked modifiers
TickedOnce(e) ==
  /\ Len(e.after) = Len(e.before)
  /\ \A k \in 1..Len(e.before) :
       /\ e.after[k].id = e.before[k].id
       /\ e.after[k].modifiers =
            IF e.before[k].id = e.id THEN tickDuration(e.before[k].modifiers).mods
            ELSE e.before[k].modifiers
  /\ e.combatant.modifiers = tickDuration(Get(e.before, e.id).modifiers).mods
  /\ e.combatant.currentStats =
       applyToStats(e.combatant.modifiers,
                    getCompleteStats(e.combatant.baseStats, e.combatant.level))

\* the turns started for the target of the modifier r since r was put on
Following(r) == TurnStarts(observed, r.target) - r.at

\* a modifier put on for d turns has d - n turns left after the n-th following
\* turn start of its target, and is gone from the d-th on
LastsItsTurns(r) ==
  LET mods == Get(combatants, r.target).modifiers
  IN IF Following(r) >= r.duration THEN ~HasModifier(mods, r.modifier)
     ELSE /\ HasModifier(mods, r.modifier)
          /\ mods[ModIdx(mods, r.modifier)].remainingDuration = r.duration - Following(r)

\* C29: every turn started for a living combatant ticks the modifiers of that
\* combatant once, before its current stats are recomputed, and leaves the
\* modifiers of every other combatant alone; so a modifier put on a combatant
\* for d turns counts down with the turns started for that combatant only,
\* whoever else acts or is skipped in between, and is gone from the d-th on
C29_TickedAtOwnTurnStart ==
  /\ \A i \in TurnEvents : TickedOnce(trace[i])
  /\ \A r \in observed.putOn : Has(combatants, r.target) => LastsItsTurns(r)

\* the modifier put on the player for two turns is gone as the player's second
\* following turn starts, after the turns of both enemies left it alone
C29_GoneAtSecondTurnStart ==
  \E r \in observed.putOn :
    /\ r.target = "hero" /\ r.duration = 2 /\ Following(r) = 2
    /\ ~HasModifier(Get(combatants, "hero").modifiers, r.modifier)
    /\ \E i \in TurnEvents : \E j \in TurnEvents : \E k \in TurnEvents :
         /\ i < j /\ j < k
         /\ trace[i].id = "a" /\ trace[j].id = "a_1" /\ trace[k].id = "hero"
         /\ HasModifier(Get(trace[i].after, "hero").modifiers, r.modifier)
         /\ HasModifier(Get(trace[j].after, "hero").modifiers, r.modifier)
         /\ HasModifier(Get(trace[k].before, "hero").modifiers, r.modifier)


----------------------------------------------------------------------------
(* When the triggers are evaluated *)

RECURSIVE StartedTurns(_)
\* the turns started for living combatants so far
StartedTurns(starts) ==
  IF starts = {} THEN 0
  ELSE LET e == CHOOSE x \in starts : TRUE
       IN e[2] + StartedTurns(starts \ {e})

\* the calls of evaluate made by the last command: one for each turn it
\* started, made right after the turn start recomputed the stats (the turn
\* event is the last one in the trace) and before the combatant selects an
\* action, each adding at most one fire to a trigger
EvaluatedOncePerTurn ==
  LET calls == observed.evaluations
  IN /\ Len(calls) = Cardinality(TurnEvents)
     /\ \A k \in 1..Len(calls) :
          /\ calls[k].at \in TurnEvents
          /\ k > 1 => calls[k - 1].at < calls[k].at
          /\ \A i \in 1..Len(calls[k].fired) : calls[k].fired[i] \in {0, 1}
     /\ \A i \in TurnEvents :
          /\ \A j \in 1..i : trace[j].ev \in {"select", "ai"} => trace[j].id # trace[i].id
                                \/ \E k \in (j + 1)..(i - 1) : trace[k].ev = "turn_end"
          /\ i < Len(trace) => trace[i + 1].ev \in {"triggerDialog", "select", "ai"}
     /\ \A i \in 1..Len(triggerEngine.fires) :
          triggerEngine.fires[i] <= StartedTurns(observed.turnStarts)

\* C30: a command evaluates the triggers once for each turn it starts for a
\* living combatant, after the stats of that combatant are recomputed and
\* before it selects an action, and at no other moment; the fire count of a
\* trigger grows by at most one for each started turn
C30_EvaluatedAtTurnStart ==
  [][/\ EvaluatedOncePerTurn'
     /\ \A i \in 1..Len(triggerEngine.fires) :
          triggerEngine'.fires[i] - triggerEngine.fires[i] <= Cardinality(TurnEvents')
     /\ Cardinality(TurnEvents') = 0 => triggerEngine' = triggerEngine]_vars

\* a command executed an action and started the next turns, and the trigger
\* fired for the second time at the first of them and not at the second
C30_FiredAtNextTurnStart ==
  /\ Len(observed.evaluations) = 2
  /\ observed.evaluations[1].fired[1] = 1
  /\ observed.evaluations[2].fired[1] = 0
  /\ triggerEngine.fires[1] = 2
  /\ \E j \in 1..observed.evaluations[1].at : trace[j].ev = "execute"


----------------------------------------------------------------------------
(* A battle with spawn actions: the scene starts with two enemies of the   *)
(* definition a (ids a and a_1), shows a dialog when the battle starts     *)
(* whose choices spawn another a or an enemy no definition knows, and      *)
(* spawns an a at each of the first two turn starts of the second round.   *)

SpawnChoiceScene ==
  Scene(<<"a", "a">>,
        << Trigger("", "1", TRUE, NoNum,
                   DialogAction("t", << Choice("yes", <<SpawnAction("a")>>),
                                        Choice("no", <<SpawnAction("nobody")>>) >>)),
           Trigger("", "turn >= 2", FALSE, 2, SpawnAction("a")) >>)

InitSpawn == InitWith({SpawnChoiceScene}, 0)

\* the commands of a client that queues no dialogs of its own
NextSpawn ==
  \/ Initialize
  \/ Start
  \/ SelectAction
  \/ SelectTargets
  \/ CancelTargetSelection
  \/ DismissDialog
  \/ SelectDialogChoice

SpecSpawn == InitSpawn /\ [][NextSpawn]_vars

CombatantIds(cs) == {cs[i].id : i \in 1..Len(cs)}

\* m is a finite number and the arithmetic mean of the initiatives in q
IsMean(m, q) ==
  LET sum == SumInitiative(q)
  IN /\ q # <<>> /\ m.d # 0 /\ sum.d # 0
     /\ m.n * sum.d * Len(q) = sum.n * m.d

\* what a spawn action for a known enemy did: one more combatant, a living
\* enemy under an id no combatant had, the others as they were, and one more
\* entry at the end of the turn queue, for it, at the mean initiative
SpawnedOne(e) ==
  LET new == e.after.combatants[Len(e.after.combatants)]
  IN /\ Len(e.after.combatants) = Len(e.before.combatants) + 1
     /\ SubSeq(e.after.combatants, 1, Len(e.before.combatants)) = e.before.combatants
     /\ new.isAlive /\ ~new.isPlayer
     /\ new.id \notin CombatantIds(e.before.combatants)
     /\ Len(e.after.turnQueue) = Len(e.before.turnQueue) + 1
     /\ SubSeq(e.after.turnQueue, 1, Len(e.before.turnQueue)) = e.before.turnQueue
     /\ e.after.turnQueue[Len(e.after.turnQueue)].combatantId = new.id
     /\ IsMean(e.after.turnQueue[Len(e.after.turnQueue)].initiative, e.before.turnQueue)

----------------------------------------------------------------------------
(* EnemyAI on its own: an enemy with some skills, MP and HP beside another *)
(* enemy and two players, one call of selectAction with an AI              *)
(* configuration, and in the trace the call with what it was given and a   *)
(* value it can return.                                                    *)

\* the skill ids of the enemy; the game has no skill "ghost"
SkillLists ==
  { <<>>, <<"guard">>, <<"ghost">>, <<"bite">>, <<"strike", "fire">>, <<"fire", "bite">>,
    <<"bite", "fire", "strike">>, <<"mend", "strike">>, <<"howl", "hex", "bite">>,
    <<"quake", "strike">>, <<"mend", "howl">>, <<"hex", "ghost">> }

\* the configuration of the enemy definition; NoAI when it has none
AIConfigs ==
  {NoAI}
  \cup {AIConfig(behavior, NoNum, NoNum, preferTargets, <<>>) :
          behavior \in {"aggressive", "balanced"},
          preferTargets \in {"", "weakest", "strongest"}}
  \cup {AIConfig("defensive", healThreshold, NoNum, preferTargets, <<>>) :
          healThreshold \in {NoNum, 10}, preferTargets \in {"", "strongest"}}
  \cup {AIConfig("random", NoNum, NoNum, "", <<>>)}
  \cup {AIConfig("scripted", NoNum, NoNum, preferTargets, skillPriority) :
          preferTargets \in {"", "weakest"},
          skillPriority \in {<<>>, <<"bite", "mend">>, <<"ghost", "quake">>}}

Member(id, hp, mp, skills, isPlayer) ==
  [createCombatant([id |-> id, baseStats |-> Stats(10, 5, 1, 2, 0),
                    skills |-> skills, level |-> 1], isPlayer)
     EXCEPT !.currentHp = hp, !.currentMp = mp, !.isAlive = hp > 0]

InitAI ==
  /\ scene = [enemies |-> <<>>, triggers |-> <<>>]
  /\ \E skills \in SkillLists, mp \in {0, 1}, hp \in {1, 5},
        heroHp \in {0, 1, 3}, allyHp \in {0, 2} :
       combatants = <<Member("a", hp, mp, skills, FALSE),
                      Member("hero", heroHp, 1, <<"strike">>, TRUE),
                      Member("a_1", 3, 1, <<"strike">>, FALSE),
                      Member("ally", allyHp, 1, <<"strike">>, TRUE)>>
  /\ phase = "start"
  /\ turnNumber = 0
  /\ turnQueue = <<>>
  /\ currentTurnIndex = 0
  /\ pendingAction = NullAction
  /\ battleLog = 0
  /\ dialogQueue = <<>>
  /\ battleResult = NullResult
  /\ previousPhase = "start"
  /\ enemyDefinitions = <<>>
  /\ triggerEngine = NewTriggerEngine
  /\ trace = <<>>
  /\ emitted = FALSE
  /\ listeners = {}
  /\ notified = {}
  /\ parser = [tokens |-> <<>>, pos |-> 0]
  /\ observed = NoObservations
  /\ overflow = FALSE
  /\ lastOp = "new"
  /\ snapshot = NoSnapshot
  /\ resultWrites = 0
  /\ dialogsLeft = 0
  /\ resume = ""

\* enemyAI.selectAction(enemy, snapshot, aiConfig) in turn 2 or 3
SelectEnemyAction ==
  \E aiConfig \in AIConfigs, turn \in 2..3 :
    \E result \in EnemyAI_selectAction(combatants[1], turn, combatants, aiConfig) :
      DamageCall("selectAction", combatants,
                 [ev |-> "selectAction", enemy |-> combatants[1], combatants |-> combatants,
                  aiConfig |-> aiConfig, turnNumber |-> turn, result |-> result])

NextAI == SelectEnemyAction

SpecAI == InitAI /\ [][NextAI]_vars

Selected == trace # <<>> /\ trace[1].ev = "selectAction"

LivingPlayers(cs) == {c \in Range(cs) : c.isPlayer /\ c.isAlive}

\* the skills of the game the enemy owns that deal damage
OwnedAttackSkills(enemy) ==
  {sk \in Range(GameSkills) : sk.id \in Range(enemy.skills) /\ IsAttack(sk)}

AffordableAttackSkills(enemy) == {sk \in OwnedAttackSkills(enemy) : sk.mpCost <= enemy.currentMp}

IsBasicAttack(e) ==
  /\ e.result.type = "skill"
  /\ e.result.skillId = "basic_attack"
  /\ e.result.actorId = e.enemy.id
  /\ Len(e.result.targetIds) = 1
  /\ \E p \in LivingPlayers(e.combatants) : p.id = e.result.targetIds[1]

IsStrongestAffordable(e) ==
  /\ e.result.type = "skill"
  /\ e.result.actorId = e.enemy.id
  /\ \E sk \in AffordableAttackSkills(e.enemy) :
       /\ sk.id = e.result.skillId
       /\ \A other \in AffordableAttackSkills(e.enemy) : Power0(other) <= Power0(sk)

\* C32: an aggressive enemy with a living player before it uses its strongest
\* affordable physical or magic skill, makes a basic attack on a living player
\* whenever it can afford no attack skill, also when it owns none, and defends
\* when no player lives
C32_AggressiveAttacks ==
  (Selected /\ MergeConfig(trace[1].aiConfig).behavior = "aggressive") =>
    LET e == trace[1]
    IN IF LivingPlayers(e.combatants) = {} THEN e.result = DefendAction(e.enemy.id)
       ELSE IF AffordableAttackSkills(e.enemy) # {} THEN IsStrongestAffordable(e)
       ELSE IsBasicAttack(e)

\* C32, as the code has it: the basic attack is made when the enemy owns an
\* attack skill and can afford none; an enemy that owns no attack skill defends
C32_AggressiveDefendsWithoutAttackSkill ==
  (Selected /\ MergeConfig(trace[1].aiConfig).behavior = "aggressive") =>
    LET e == trace[1]
    IN IF LivingPlayers(e.combatants) = {} THEN e.result = DefendAction(e.enemy.id)
       ELSE IF OwnedAttackSkills(e.enemy) = {} THEN e.result = DefendAction(e.enemy.id)
       ELSE IF AffordableAttackSkills(e.enemy) # {} THEN IsStrongestAffordable(e)
       ELSE IsBasicAttack(e)

C32_BasicAttackUnaffordable ==
  /\ Selected
  /\ MergeConfig(trace[1].aiConfig).behavior = "aggressive"
  /\ OwnedAttackSkills(trace[1].enemy) # {}
  /\ IsBasicAttack(trace[1])

----------------------------------------------------------------------------
(* The combat formulas of a game from the StatEngine that validates them   *)
(* to the DamageCalculator that evaluates them: the game's stats are       *)
(* Speed, MaxHP, MaxMP, Attack and Defense, its derived stat is Power, and *)
(* each combat formula is one name.                                        *)

\* the names of the damage context, of the stats and of the special
\* variables, as a formula spells them
Spelled ==
  [Attack |-> <<"A", "t", "t", "a", "c", "k">>,
   MagicPower |-> <<"M", "a", "g", "i", "c", "P", "o", "w", "e", "r">>,
   Strength |-> <<"S", "t", "r", "e", "n", "g", "t", "h">>,
   Intelligence |-> <<"I", "n", "t", "e", "l", "l", "i", "g", "e", "n", "c", "e">>,
   Dexterity |-> <<"D", "e", "x", "t", "e", "r", "i", "t", "y">>,
   Luck |-> <<"L", "u", "c", "k">>,
   CritRate |-> <<"C", "r", "i", "t", "R", "a", "t", "e">>,
   CritDamage |-> <<"C", "r", "i", "t", "D", "a", "m", "a", "g", "e">>,
   Speed |-> <<"S", "p", "e", "e", "d">>,
   Level |-> <<"L", "e", "v", "e", "l">>,
   EnemyDef |-> <<"E", "n", "e", "m", "y", "D", "e", "f">>,
   EnemyRes |-> <<"E", "n", "e", "m", "y", "R", "e", "s">>,
   EnemyDefense |-> <<"E", "n", "e", "m", "y", "D", "e", "f", "e", "n", "s", "e">>,
   EnemyMagicResist |-> <<"E", "n", "e", "m", "y", "M", "a", "g", "i", "c", "R", "e", "s", "i", "s", "t">>,
   SkillPower |-> <<"S", "k", "i", "l", "l", "P", "o", "w", "e", "r">>,
   Variance |-> <<"V", "a", "r", "i", "a", "n", "c", "e">>,
   IsCritical |-> <<"I", "s", "C", "r", "i", "t", "i", "c", "a", "l">>,
   Random |-> <<"R", "a", "n", "d", "o", "m">>,
   MaxHP |-> <<"M", "a", "x", "H", "P">>,
   MaxMP |-> <<"M", "a", "x", "M", "P">>,
   Defense |-> <<"D", "e", "f", "e", "n", "s", "e">>,
   Power |-> <<"P", "o", "w", "e", "r">>,
   EnemySpeed |-> <<"E", "n", "e", "m", "y", "S", "p", "e", "e", "d">>,
   EnemyEvasion |-> <<"E", "n", "e", "m", "y", "E", "v", "a", "s", "i", "o", "n">>]

\* the names a combat formula of the game is written with
FormulaNames ==
  {"Speed", "MaxHP", "Attack", "Defense", "Power", "Level", "EnemyDef", "EnemyRes",
   "EnemySpeed", "EnemyEvasion", "SkillPower", "CritRate"}

NameFormula(name) == GameFormula(Spelled[name], TRUE, {Spelled[name]})

\* game.stats with the three formulas
StatsConfig(physicalDamage, magicDamage, criticalCheck) ==
  [primaryStats |-> <<[id |-> Spelled.Speed], [id |-> Spelled.MaxHP], [id |-> Spelled.MaxMP],
                      [id |-> Spelled.Attack], [id |-> Spelled.Defense]>>,
   derivedStats |-> <<DerivedStat(Spelled.Power,
                                  GameFormula(Spelled.Attack \o <<" ", "*", " ", "2">>, TRUE,
                                              {Spelled.Attack}))>>,
   combatFormulas |-> [physicalDamage |-> NameFormula(physicalDamage),
                       magicDamage |-> NameFormula(magicDamage),
                       criticalCheck |-> NameFormula(criticalCheck),
                       turnOrder |-> NameFormula("Speed")]]

\* the DamageContext as the FormulaContext compute is given
FormulaContext(context) ==
  [name \in {Spelled[k] : k \in DOMAIN context} |->
     Number(context[CHOOSE k \in DOMAIN context : Spelled[k] = name])]

\* new StatEngine(game.stats); when it did not throw,
\* new DamageCalculator(game).calculate(attacker, defender, damageType, 100):
\* noted are the outcomes of compute in checkCritical and in calculate, where
\* an error is caught and the fallback taken
CalculateValidated ==
  /\ trace = <<>>
  /\ \E physicalDamage \in FormulaNames, magicDamage \in FormulaNames,
        criticalCheck \in FormulaNames, damageType \in {"physical", "magic"} :
       LET config == StatsConfig(physicalDamage, magicDamage, criticalCheck)
           formula == IF damageType = "physical" THEN config.combatFormulas.physicalDamage
                      ELSE config.combatFormulas.magicDamage
           context == FormulaContext(buildContext(Fighter("hero", 2, 0, 3, FALSE, TRUE),
                                                  Fighter("a", 2, 1, 3, FALSE, FALSE),
                                                  Num(100), Num(0), Num(50)))
       IN \E engine \in {validateConfig(config, parser)} :
            IF ~engine.ok
            THEN /\ parser' = engine.parser
                 /\ trace' = <<[ev |-> "calculate", config |-> config, constructed |-> FALSE]>>
            ELSE \E critRate \in {computeWith(engine.parser,
                                              config.combatFormulas.criticalCheck.text,
                                              context)} :
                 \E rawDamage \in {computeWith(critRate.this, formula.text, context)} :
                   /\ parser' = rawDamage.this
                   /\ trace' = <<[ev |-> "calculate", config |-> config, constructed |-> TRUE,
                                  damageType |-> damageType, formula |-> formula,
                                  critRate |-> Outcome(critRate),
                                  rawDamage |-> Outcome(rawDamage)]>>
  /\ UNCHANGED <<machineVars, emitted, overflow, scene, lastOp, snapshot, resultWrites,
                 dialogsLeft, resume, listeners, notified, observed>>

NextCombatFormulas == CalculateValidated

SpecCombatFormulas == InitFormula /\ [][NextCombatFormulas]_vars

Validated == trace # <<>> /\ trace[1].ev = "calculate" /\ trace[1].constructed

\* the names the context of buildContext defines
ContextNames ==
  {Spelled[k] : k \in DOMAIN buildContext(Fighter("hero", 2, 0, 3, FALSE, TRUE),
                                          Fighter("a", 2, 1, 3, FALSE, FALSE),
                                          Num(100), Num(0), Num(50))}

\* C33: a damage or critical-check formula of a configuration the StatEngine
\* constructor accepted is evaluated by the DamageCalculator: its compute never
\* throws for an unknown variable, so the fallback is not taken
C33_ValidatedIsEvaluated ==
  Validated => trace[1].critRate.ok /\ trace[1].rawDamage.ok

\* C33, as the code has it: an accepted formula is evaluated exactly when the
\* names it refers to are names of the damage context
C33_EvaluatedWhenInContext ==
  Validated =>
    /\ trace[1].critRate.ok
         <=> trace[1].config.combatFormulas.criticalCheck.names \subseteq ContextNames
    /\ trace[1].rawDamage.ok <=> trace[1].formula.names \subseteq ContextNames

\* the accepted formula EnemySpeed was not evaluated
C33_FallbackAfterValidation ==
  /\ Validated
  /\ trace[1].formula.text = Spelled.EnemySpeed
  /\ ~trace[1].rawDamage.ok
  /\ trace[1].rawDamage.error = <<"Unknown variable", Spelled.EnemySpeed>>

----------------------------------------------------------------------------
(* recalculateStats where the machine calls it: at a turn start after the  *)
(* modifiers were ticked, and after a buff was added; between the calls    *)
(* the one combatant is healed or hurt.  The trace holds the last call,    *)
(* with the combatant before and after the recalculation.                  *)

CapModifiers ==
  { ModifierDefinition("vigor", <<ModifierEffect("MaxHP", "flat", 2)>>, 2, FALSE, NoNum),
    ModifierDefinition("frail", <<ModifierEffect("MaxHP", "flat", -1)>>, 1, FALSE, NoNum),
    ModifierDefinition("focus", <<ModifierEffect("MaxMP", "percent", 50)>>, 1, FALSE, NoNum),
    ModifierDefinition("guard", <<ModifierEffect("Defense", "flat", 2)>>, 2, FALSE, NoNum) }

CombatantCall(name, c, e) ==
  /\ combatants' = <<c>>
  /\ trace' = <<e>>
  /\ lastOp' = name
  /\ UNCHANGED <<phase, turnNumber, turnQueue, currentTurnIndex, pendingAction, battleLog,
                 dialogQueue, battleResult, previousPhase, enemyDefinitions, triggerEngine,
                 emitted, overflow, scene, snapshot, resultWrites, dialogsLeft, resume,
                 listeners, notified, parser, observed>>

\* startTurn: isDefending = false, tickDuration, recalculateStats
TurnStartRecalculates ==
  LET ticked == tickDuration(combatants[1].modifiers)
      before == [combatants[1] EXCEPT !.isDefending = FALSE, !.modifiers = ticked.mods]
  IN CombatantCall("startTurn", recalculateStats(before),
                   [ev |-> "recalculate", at |-> "turn_start", before |-> before,
                    after |-> recalculateStats(before)])

\* a buff: addModifier, recalculateStats
BuffRecalculates ==
  \E definition \in CapModifiers :
    LET before == [combatants[1] EXCEPT !.modifiers = addModifier(@, definition, "buff")]
    IN CombatantCall("buff", recalculateStats(before),
                     [ev |-> "recalculate", at |-> definition.id, before |-> before,
                      after |-> recalculateStats(before)])

\* a heal of the living combatant: Math.min(maxHp, currentHp + amount)
HealBetween ==
  \E amount \in 1..2 :
    CombatantCall("heal", [combatants[1] EXCEPT !.currentHp = Min2(combatants[1].maxHp, @ + amount)],
                  [ev |-> "heal", amount |-> amount])

\* damage that leaves the combatant alive, and an MP cost
HurtBetween ==
  /\ combatants[1].currentHp > 1
  /\ \E cost \in 0..1 :
       CombatantCall("damage", [combatants[1] EXCEPT !.currentHp = @ - 1,
                                                     !.currentMp = Max2(0, @ - cost)],
                     [ev |-> "damage", amount |-> 1, cost |-> cost])

NextRecalculate ==
  \/ TurnStartRecalculates
  \/ BuffRecalculates
  \/ HealBetween
  \/ HurtBetween

SpecRecalculate == InitModifiers /\ [][NextRecalculate]_vars

Recalculated == trace # <<>> /\ trace[1].ev = "recalculate"

\* C34: a recalculation of the stats never lowers maxHp or maxMp and never
\* changes currentHp or currentMp
C34_MaxNeverLowered ==
  Recalculated =>
    /\ trace[1].after.maxHp >= trace[1].before.maxHp
    /\ trace[1].after.maxMp >= trace[1].before.maxMp
    /\ trace[1].after.currentHp = trace[1].before.currentHp
    /\ trace[1].after.currentMp = trace[1].before.currentMp

\* C34, as the code has it: the maxima are those of the new current stats,
\* higher or lower than before, and the current values stay
C34_MaxFollowsStats ==
  Recalculated =>
    /\ trace[1].after.maxHp = applyToStats(trace[1].before.modifiers,
                                           trace[1].before.baseStats).MaxHP
    /\ trace[1].after.maxMp = applyToStats(trace[1].before.modifiers,
                                           trace[1].before.baseStats).MaxMP
    /\ trace[1].after.currentHp = trace[1].before.currentHp
    /\ trace[1].after.currentMp = trace[1].before.currentMp

\* the MaxHP buff ran out at a turn start and left currentHp above maxHp
C34_LoweredBelowCurrent ==
  /\ Recalculated
  /\ trace[1].at = "turn_start"
  /\ trace[1].after.maxHp < trace[1].before.maxHp
  /\ trace[1].after.currentHp > trace[1].after.maxHp

----------------------------------------------------------------------------
(* the dialog phase and the dialog queue                                   *)

\* C35: whenever a command has returned, the phase is 'dialog' if and only if
\* the dialog queue is not empty, whatever dialogs triggers and queueDialog
\* queued and dismissDialog and selectDialogChoice took off
C35_DialogPhaseIffQueued == phase = "dialog" <=> dialogQueue # <<>>

----------------------------------------------------------------------------
(* commands return, and where they stop                                    *)

StopPhases == {"action_select", "target_select", "dialog", "victory", "defeat", "fled"}

\* C36: every command of a started battle returns after finitely many turn
\* advances, never recursing without end through startTurn and nextTurn, and
\* stops in action_select, target_select, dialog, victory, defeat or fled
C36_CommandsReturn == turnNumber >= 1 => ~overflow /\ phase \in StopPhases

----------------------------------------------------------------------------
(* a battle that is not over can go on                                     *)

\* what getSnapshot shows of a machine state, and the fields behind it
Visible(s) ==
  <<s.phase, s.turnNumber, s.turnQueue, s.currentTurnIndex, s.combatants, s.pendingAction,
    s.battleLog, s.dialogQueue, s.battleResult, s.previousPhase, s.enemyDefinitions,
    s.triggerEngine>>

Moves(results) == \E s \in results : Visible(s) # Visible(State)

\* one of selectAction, selectTargets, cancelTargetSelection, dismissDialog and
\* selectDialogChoice, with some argument, changes the state
SomeCommandMoves ==
  \/ \E action \in PlayerActions : Moves(selectAction(State, action))
  \/ \E targetIds \in TargetChoices : Moves(selectTargets(State, targetIds))
  \/ Moves({cancelTargetSelection(State)})
  \/ Moves({dismissDialog(State)})
  \/ \E choiceId \in ChoiceIds : Moves(selectDialogChoice(State, choiceId))

\* C37: in every state of a started battle whose phase is not victory, defeat
\* or fled some public command changes the state, so no state is stuck in
\* dialog, turn_start or another phase and the battle can be brought to an end
C37_NeverStuck == (Started /\ phase \notin TerminalPhases) => SomeCommandMoves

----------------------------------------------------------------------------
(* HP, MP and their maxima in a battle whose scene buffs the hero's MaxHP  *)
(* for two turns at the first turn start, hurts the enemy a and transforms *)
(* it into an a_1, and in the second round heals the hero and lets the     *)
(* enemy a_1 flee                                                          *)

HealAction(target, amount) == [type |-> "heal", target |-> target, amount |-> amount]

DamageAction(target, amount) == [type |-> "damage", target |-> target, amount |-> amount]

FleeAction(target) == [type |-> "flee", target |-> target]

TransformAction(target, newEnemyId) ==
  [type |-> "transform", target |-> target, newEnemyId |-> newEnemyId]

MultiAction(actions) == [type |-> "multi", actions |-> actions]

VitalsScene ==
  Scene(<<"a", "a_1">>,
        << Trigger("", "1", TRUE, NoNum, BuffAction("hero", "MaxHP", 2, 2)),
           Trigger("", "1", TRUE, NoNum,
                   MultiAction(<<DamageAction("a", 1), TransformAction("a", "a_1")>>)),
           Trigger("", "turn >= 2", TRUE, NoNum, HealAction("hero", 2)),
           Trigger("", "turn >= 2", TRUE, NoNum, FleeAction("a_1")) >>)

InitVitals == InitWith({VitalsScene}, 0)

SpecVitals == InitVitals /\ [][NextBuff]_vars

AliveIffHp(c) == (c.isAlive => c.currentHp > 0) /\ (~c.isAlive => c.currentHp = 0)

\* C38: a living combatant has currentHp > 0 and a dead one currentHp = 0,
\* whatever brought the HP to 0 or the combatant back to life
C38_AliveIffHp == \A c \in Range(combatants) : AliveIffHp(c)

WithinCaps(c) ==
  /\ 0 <= c.currentHp /\ c.currentHp <= c.maxHp
  /\ 0 <= c.currentMp /\ c.currentMp <= c.maxMp

\* C39: every combatant has 0 <= currentHp <= maxHp and 0 <= currentMp <= maxMp
C39_WithinCaps == \A c \in Range(combatants) : WithinCaps(c)

----------------------------------------------------------------------------
(* what selectAction can return                                            *)

IsOwnedAffordableSkill(e) ==
  /\ e.result.type = "skill"
  /\ e.result.actorId = e.enemy.id
  /\ e.result.skillId \in Range(e.enemy.skills)
  /\ \E sk \in Range(GameSkills) : sk.id = e.result.skillId /\ sk.mpCost <= e.enemy.currentMp
  /\ \A i \in 1..Len(e.result.targetIds) :
       \/ e.result.targetIds[i] = e.enemy.id
       \/ \E p \in LivingPlayers(e.combatants) : p.id = e.result.targetIds[i]

\* C40: under every behaviour the action selectAction returns is defend, the
\* basic attack on a living player, or a skill that the enemy owns, that the
\* game defines and whose mpCost is at most the enemy's current MP, with
\* every target a living player or the enemy itself
C40_ActionIsLegal ==
  Selected =>
    \/ trace[1].result = DefendAction(trace[1].enemy.id)
    \/ IsBasicAttack(trace[1])
    \/ IsOwnedAffordableSkill(trace[1])

\* the scripted enemy used the skill of its priority list on both players
C40_ScriptedHitsAll ==
  /\ Selected
  /\ MergeConfig(trace[1].aiConfig).behavior = "scripted"
  /\ trace[1].result.skillId = "quake"
  /\ trace[1].result.targetIds = <<"hero", "ally">>
  /\ trace[1].enemy.skills = <<"quake", "strike">>

====
